---- MODULE Spec2Model ----
(***************************************************************************)
(* Model of the judge engine of MoodleLTI (src/judge/runner.py): one       *)
(* invocation of judge_submission, from the acquisition of its workspace   *)
(* to the release in its finally block, with compile_code, run_test_case   *)
(* and _kill_process_tree taken step by step.                              *)
(*                                                                         *)
(* Texts are sequences of one-character tokens: "a", "b", SP (space),      *)
(* TAB, LF, CR; the byte BAD is a byte that is not valid UTF-8 and RC the  *)
(* replacement character U+FFFD that decoding turns it into.               *)
(***************************************************************************)
EXTENDS Integers, Sequences, FiniteSets, TLC

\* ------------------------------------------------------------------ bounds
MaxCases == 3         \* longest list of test cases of the coarse family
Over == 1             \* by how much the long texts exceed a truncation cap
MaxLen == 4           \* longest text _normalize_output is compared on
MaxBlank == 2         \* most blank lines appended to a text
MaxWorkers == 2       \* requests handled at the same time
MaxSuffix == MaxWorkers     \* random suffixes mkdtemp can draw, per prefix
MaxLeft == MaxWorkers - 1   \* directories failed removals may leave behind

\* ------------------------------------------------------- program constants
ActualCap == 500      \* JudgeResult.actual_output[:500]
ExpectedCap == 500    \* JudgeResult.expected_output[:500]
ErrorCap == 500       \* JudgeResult.error[:500]
StderrCap == 500      \* stderr_str[:500] on the RE path
ExcCap == 500         \* str(e)[:500] in the generic handler
CompileErrCap == 1000 \* result.stderr[:1000] in compile_code
SlackMs == 500        \* elapsed_ms > time_limit_s * 1000 + 500
GraceMs == 1500       \* effective_timeout = time_limit_s + 1.5
MsPerS == 1000        \* seconds <-> milliseconds
MinLimitS == 1        \* max(1, time_limit_ms // 1000)

\* -------------------------------------------------------------------- text
SP == "SP"
TAB == "TAB"
LF == "LF"
CR == "CR"
BAD == "xFF"
RC == "uFFFD"

Whitespace == {SP, TAB, LF, CR}

Rep(c, n) == [i \in 1..n |-> c]

Max(S) == CHOOSE m \in S : \A x \in S : x <= m

\* Python's s[:n]
Take(s, n) == IF Len(s) <= n THEN s ELSE SubSeq(s, 1, n)

\* bytes.decode('utf-8', errors='replace'), on ASCII bytes and invalid bytes
Decode(bs) == [i \in 1..Len(bs) |-> IF bs[i] = BAD THEN RC ELSE bs[i]]

\* text.replace('\r\n', '\n'): every CR directly followed by LF is dropped
ReplaceCRLF(t) ==
    LET pairs == [i \in 1..Len(t) |->
                    <<t[i], IF i < Len(t) THEN t[i + 1] ELSE "">>]
        keep(p) == ~(p[1] = CR /\ p[2] = LF)
        kept == SelectSeq(pairs, keep)
    IN  [k \in 1..Len(kept) |-> kept[k][1]]

\* text.split('\n'): one more piece than there are LF, pieces may be empty
SplitLF(t) ==
    LET nl == {i \in 1..Len(t) : t[i] = LF}
        pos(k) == IF k = 0 THEN 0
                  ELSE IF k = Cardinality(nl) + 1 THEN Len(t) + 1
                  ELSE CHOOSE i \in nl : Cardinality({j \in nl : j < i}) = k - 1
    IN  [k \in 1..(Cardinality(nl) + 1) |-> SubSeq(t, pos(k - 1) + 1, pos(k) - 1)]

\* line.rstrip(): cut after the last character that is not whitespace
RStrip(line) ==
    LET n == Len(line)
        cut == CHOOSE c \in 0..n :
                 /\ c = 0 \/ line[c] \notin Whitespace
                 /\ \A j \in (c + 1)..n : line[j] \in Whitespace
    IN  SubSeq(line, 1, cut)

\* while lines and lines[-1] == '': lines.pop()
PopEmpty(lines) ==
    LET n == Len(lines)
        cut == CHOOSE c \in 0..n :
                 /\ c = 0 \/ lines[c] # <<>>
                 /\ \A j \in (c + 1)..n : lines[j] = <<>>
    IN  SubSeq(lines, 1, cut)

\* '\n'.join(lines)
RECURSIVE JoinLF(_)
JoinLF(lines) ==
    IF Len(lines) = 0 THEN <<>>
    ELSE IF Len(lines) = 1 THEN lines[1]
    ELSE lines[1] \o <<LF>> \o JoinLF(Tail(lines))

\* line.rstrip(' \t'): only spaces and tabs are cut
RStripBlanks(line) ==
    LET n == Len(line)
        cut == CHOOSE c \in 0..n :
                 /\ c = 0 \/ line[c] \notin {SP, TAB}
                 /\ \A j \in (c + 1)..n : line[j] \in {SP, TAB}
    IN  SubSeq(line, 1, cut)

\* mutant of _normalize_output: the trailing empty lines are removed before
\* the lines are stripped
_normalize_outputPopFirst(text) ==
    LET lines == PopEmpty(SplitLF(ReplaceCRLF(text)))
        stripped == [k \in 1..Len(lines) |-> RStrip(lines[k])]
    IN  JoinLF(stripped)

\* mutant of _normalize_output: the trailing empty lines are kept
_normalize_outputKeepBlank(text) ==
    LET lines == SplitLF(ReplaceCRLF(text))
        stripped == [k \in 1..Len(lines) |-> RStrip(lines[k])]
    IN  JoinLF(stripped)

\* mutant of _normalize_output: lines end at LF only and a carriage return
\* is not trailing whitespace
_normalize_outputLFOnly(text) ==
    LET lines == SplitLF(text)
        stripped == [k \in 1..Len(lines) |-> RStripBlanks(lines[k])]
    IN  JoinLF(PopEmpty(stripped))

_normalize_output(text) ==
    LET lines == SplitLF(ReplaceCRLF(text))
        stripped == [k \in 1..Len(lines) |-> RStrip(lines[k])]
    IN  JoinLF(PopEmpty(stripped))

\* ---------------------------------------------------------- fixed messages
MsgTimeLimit ==
    <<"T", "i", "m", "e", SP, "l", "i", "m", "i", "t", SP, "e", "x", "c",
      "e", "e", "d", "e", "d">>

MsgMemoryLimit ==
    <<"M", "e", "m", "o", "r", "y", SP, "l", "i", "m", "i", "t", SP, "e",
      "x", "c", "e", "e", "d", "e", "d">>

MsgUnsupported ==
    <<"U", "n", "s", "u", "p", "p", "o", "r", "t", "e", "d", SP, "l", "a",
      "n", "g", "u", "a", "g", "e">>

MsgUnsupportedColon ==
    <<"U", "n", "s", "u", "p", "p", "o", "r", "t", "e", "d", SP, "l", "a",
      "n", "g", "u", "a", "g", "e", ":", SP>>

MsgCompileTimeout ==
    <<"C", "o", "m", "p", "i", "l", "a", "t", "i", "o", "n", SP, "t", "i",
      "m", "e", "d", SP, "o", "u", "t">>

MsgCompileError ==
    <<"C", "o", "m", "p", "i", "l", "a", "t", "i", "o", "n", SP, "e", "r",
      "r", "o", "r", ":", SP>>

MsgNoClosingQuote ==
    <<"N", "o", SP, "c", "l", "o", "s", "i", "n", "g", SP, "q", "u", "o",
      "t", "a", "t", "i", "o", "n">>

MsgNoSuchFile ==
    <<"N", "o", SP, "s", "u", "c", "h", SP, "f", "i", "l", "e", SP, "o",
      "r", SP, "d", "i", "r", "e", "c", "t", "o", "r", "y">>

\* ------------------------------------------------------- language registry
NONE == "NONE"

\* Config.SUPPORTED_LANGUAGES
SUPPORTED_LANGUAGES ==
    [l \in {"python", "c", "cpp"} |->
        IF l = "python"
        THEN [extension |-> ".py", compile_cmd |-> NONE,
              run_cmd |-> "python3 {file}"]
        ELSE IF l = "c"
        THEN [extension |-> ".c", compile_cmd |-> "gcc -o {output} {file} -lm",
              run_cmd |-> "{output}"]
        ELSE [extension |-> ".cpp", compile_cmd |-> "g++ -o {output} {file} -lm",
              run_cmd |-> "{output}"]]

\* the language identifier as text, for the messages that quote it
LanguageName(language) ==
    IF language = "python" THEN <<"p", "y", "t", "h", "o", "n">>
    ELSE IF language = "long" THEN Rep("l", CompileErrCap + Over)
    ELSE IF language = "c" THEN <<"c">>
    ELSE IF language = "cpp" THEN <<"c", "p", "p">>
    ELSE <<"j", "a", "v", "a">>

\* a path below the temporary directory; dir tells what the directory's name
\* holds: "plain" (no shell or shlex metacharacter), "space" or "quote"
NoPath == [dir |-> "", file |-> ""]
NoException == [type |-> NONE, msg |-> <<>>]

\* ----------------------------------------------------------- compile_code
\* What the environment does to one compile: whether the source file can be
\* written, how the compile command ends, and whether a compiler process
\* outlives the shell that subprocess.run kills on timeout.
CompileBehaviours(language, dir) ==
    LET base == [write |-> "ok", kind |-> "exit", returncode |-> 0,
                 stderr |-> <<>>, orphan |-> FALSE, exc |-> <<>>]
        failing == {[base EXCEPT !.returncode = 1, !.stderr = e] :
                        e \in {<<>>, <<"e">>, Rep("e", CompileErrCap + Over)}}
    IN  IF language \notin DOMAIN SUPPORTED_LANGUAGES THEN {base}
        ELSE {[base EXCEPT !.write = "fail"]} \cup
             IF SUPPORTED_LANGUAGES[language].compile_cmd = NONE THEN {base}
             ELSE IF dir # "plain"
             THEN {[base EXCEPT !.returncode = 2, !.stderr = <<"e">>]}
             ELSE {base} \cup failing \cup
                  {[base EXCEPT !.kind = "timeout", !.orphan = o] : o \in BOOLEAN} \cup
                  {[base EXCEPT !.kind = "error", !.exc = x] :
                        x \in {<<"x">>, Rep("x", CompileErrCap + Over)}}

\* mutant of compile_code: the registry is indexed, not looked up with get,
\* and a language it does not hold raises KeyError
compile_codeIndexed(language, work_dir, platform, cb) ==
    LET failed(error) == [raised |-> NoException, success |-> FALSE,
                          executable_path |-> NoPath, error |-> error]
    IN  IF language \notin DOMAIN SUPPORTED_LANGUAGES
        THEN [raised |-> [type |-> "KeyError", msg |-> LanguageName(language)],
              success |-> FALSE, executable_path |-> NoPath, error |-> <<>>]
        ELSE LET lang_config == SUPPORTED_LANGUAGES[language]
                 source_file == [dir |-> work_dir,
                                 file |-> "solution" \o lang_config.extension]
                 output_file == [dir |-> work_dir,
                                 file |-> IF platform = "win32" THEN "solution.exe"
                                          ELSE "solution"]
             IN  IF cb.write = "fail"
                 THEN [raised |-> [type |-> "OSError", msg |-> <<"w">>],
                       success |-> FALSE, executable_path |-> NoPath,
                       error |-> <<>>]
                 ELSE IF lang_config.compile_cmd = NONE
                 THEN [raised |-> NoException, success |-> TRUE,
                       executable_path |-> source_file, error |-> <<>>]
                 ELSE IF cb.kind = "timeout" THEN failed(MsgCompileTimeout)
                 ELSE IF cb.kind = "error" THEN failed(MsgCompileError \o cb.exc)
                 ELSE IF cb.returncode # 0
                 THEN failed(Take(cb.stderr, CompileErrCap))
                 ELSE [raised |-> NoException, success |-> TRUE,
                       executable_path |-> output_file, error |-> <<>>]

compile_code(language, work_dir, platform, cb) ==
    LET failed(error) == [raised |-> NoException, success |-> FALSE,
                          executable_path |-> NoPath, error |-> error]
    IN  IF language \notin DOMAIN SUPPORTED_LANGUAGES
        THEN failed(MsgUnsupportedColon \o LanguageName(language))
        ELSE LET lang_config == SUPPORTED_LANGUAGES[language]
                 source_file == [dir |-> work_dir,
                                 file |-> "solution" \o lang_config.extension]
                 output_file == [dir |-> work_dir,
                                 file |-> IF platform = "win32" THEN "solution.exe"
                                          ELSE "solution"]
             IN  IF cb.write = "fail"
                 THEN [raised |-> [type |-> "OSError", msg |-> <<"w">>],
                       success |-> FALSE, executable_path |-> NoPath,
                       error |-> <<>>]
                 ELSE IF lang_config.compile_cmd = NONE
                 THEN [raised |-> NoException, success |-> TRUE,
                       executable_path |-> source_file, error |-> <<>>]
                 ELSE IF cb.kind = "timeout" THEN failed(MsgCompileTimeout)
                 ELSE IF cb.kind = "error" THEN failed(MsgCompileError \o cb.exc)
                 ELSE IF cb.returncode # 0
                 THEN failed(Take(cb.stderr, CompileErrCap))
                 ELSE [raised |-> NoException, success |-> TRUE,
                       executable_path |-> output_file, error |-> <<>>]

\* whether compile_code gets as far as subprocess.run
CompileLaunches(language, cb) ==
    /\ language \in DOMAIN SUPPORTED_LANGUAGES
    /\ cb.write = "ok"
    /\ SUPPORTED_LANGUAGES[language].compile_cmd # NONE

\* ----------------------------------------------------------- JudgeResult
\* mutant of JudgeResult: the three texts are stored whole
JudgeResultWhole(test_case_id, verdict, actual_output, expected_output, time_ms, error) ==
    [test_case_id |-> test_case_id,
     verdict |-> verdict,
     actual_output |-> actual_output,
     expected_output |-> expected_output,
     time_ms |-> time_ms,
     error |-> error]

JudgeResult(test_case_id, verdict, actual_output, expected_output, time_ms, error) ==
    [test_case_id |-> test_case_id,
     verdict |-> verdict,
     actual_output |-> Take(actual_output, ActualCap),
     expected_output |-> Take(expected_output, ExpectedCap),
     time_ms |-> time_ms,
     error |-> Take(error, ErrorCap)]

\* ---------------------------------------------------------- run_test_case
\* Lines 159-171, before the try: the registry lookup and the split of the
\* run command. shlex.split raises ValueError on an unbalanced quote; on
\* win32 str.split never raises. A space in the path splits the file name.
\* `file` is the path put into the run_cmd template (l.164-166).
\* mutant of RunCommand: the template is filled with the source file, as the
\* compile command's {file} is, not with the artifact
RunCommandSource(language, executable_path, platform) ==
    IF language \notin DOMAIN SUPPORTED_LANGUAGES
    THEN [status |-> "unsupported", argv |-> "none", file |-> NoPath]
    ELSE LET source_file ==
                 [dir |-> executable_path.dir,
                  file |-> "solution" \o SUPPORTED_LANGUAGES[language].extension]
         IN  IF platform # "win32" /\ executable_path.dir = "quote"
             THEN [status |-> "raise", argv |-> "none", file |-> source_file]
             ELSE IF executable_path.dir = "space"
             THEN [status |-> "ok", argv |-> "split", file |-> source_file]
             ELSE [status |-> "ok", argv |-> "program", file |-> source_file]

RunCommand(language, executable_path, platform) ==
    IF language \notin DOMAIN SUPPORTED_LANGUAGES
    THEN [status |-> "unsupported", argv |-> "none", file |-> NoPath]
    ELSE IF platform # "win32" /\ executable_path.dir = "quote"
    THEN [status |-> "raise", argv |-> "none", file |-> executable_path]
    ELSE IF executable_path.dir = "space"
    THEN [status |-> "ok", argv |-> "split", file |-> executable_path]
    ELSE [status |-> "ok", argv |-> "program", file |-> executable_path]

ResultUnsupported(tc) ==
    JudgeResult(tc.id, "CE", <<>>, <<>>, 0, MsgUnsupported)

\* mutant of _get_preexec_fn: only the memory limit is set
_get_preexec_fnMemoryOnly(sys_platform) ==
    IF sys_platform = "win32" THEN <<>> ELSE <<"RLIMIT_AS">>

\* lines 67-82: the limits the child sets on itself between fork and exec,
\* in the order of the setrlimit calls; none on win32, where Popen gets no
\* preexec_fn
_get_preexec_fn(sys_platform) ==
    IF sys_platform = "win32" THEN <<>>
    ELSE <<"RLIMIT_AS", "RLIMIT_CORE", "RLIMIT_FSIZE">>

\* the events of one started child: the fork of Popen, then the limits
Started(sys_platform, tc) ==
    LET limits == _get_preexec_fn(sys_platform)
    IN  <<[ev |-> "Popen", tc |-> tc]>> \o
        [k \in 1..Len(limits) |-> [ev |-> limits[k], tc |-> tc]]

\* the most that passes between start_time and the call of communicate: a
\* completed child can show an elapsed time that much above the timeout
StartupMs == Over

\* mutant of effective_timeout: the call is aborted at the nominal limit
effective_timeoutNominal(time_limit_s) == time_limit_s * MsPerS

\* line 174, in milliseconds
effective_timeout(time_limit_s) == time_limit_s * MsPerS + GraceMs

\* communicate raises TimeoutExpired: the child has not ended when the
\* timeout, counted from the call, runs out
TimeoutExpired(b, time_limit_s) ==
    \/ b.kind = "hang"
    \/ b.kind = "exit" /\ b.elapsed_ms - StartupMs > effective_timeout(time_limit_s)

\* mutant of ResultTimeout: the effective timeout is reported
ResultTimeoutEffective(tc, time_limit_s) ==
    JudgeResult(tc.id, "TLE", <<>>, tc.expected_output,
                time_limit_s * MsPerS + GraceMs, MsgTimeLimit)

\* lines 203-211, after _kill_process_tree
ResultTimeout(tc, time_limit_s) ==
    JudgeResult(tc.id, "TLE", <<>>, tc.expected_output,
                time_limit_s * MsPerS, MsgTimeLimit)

\* mutant of ResultCompleted: the exit code is looked at before the slack
ResultCompletedExitFirst(tc, time_limit_s, b) ==
    LET stdout_str == Decode(b.stdout)
        actual == _normalize_output(stdout_str)
        expected == _normalize_output(tc.expected_output)
    IN  IF b.returncode # 0
        THEN JudgeResult(tc.id, "RE", stdout_str, tc.expected_output,
                         b.elapsed_ms, Take(Decode(b.stderr), StderrCap))
        ELSE IF b.elapsed_ms > (time_limit_s * MsPerS) + SlackMs
        THEN JudgeResult(tc.id, "TLE", <<>>, tc.expected_output,
                         b.elapsed_ms, MsgTimeLimit)
        ELSE IF actual = expected
        THEN JudgeResult(tc.id, "AC", actual, expected, b.elapsed_ms, <<>>)
        ELSE JudgeResult(tc.id, "WA", actual, expected, b.elapsed_ms, <<>>)

\* mutant of ResultCompleted: the output is compared before the exit code
ResultCompletedOutputFirst(tc, time_limit_s, b) ==
    LET stdout_str == Decode(b.stdout)
        actual == _normalize_output(stdout_str)
        expected == _normalize_output(tc.expected_output)
    IN  IF b.elapsed_ms > (time_limit_s * MsPerS) + SlackMs
        THEN JudgeResult(tc.id, "TLE", <<>>, tc.expected_output,
                         b.elapsed_ms, MsgTimeLimit)
        ELSE IF actual = expected
        THEN JudgeResult(tc.id, "AC", actual, expected, b.elapsed_ms, <<>>)
        ELSE IF b.returncode # 0
        THEN JudgeResult(tc.id, "RE", stdout_str, tc.expected_output,
                         b.elapsed_ms, Take(Decode(b.stderr), StderrCap))
        ELSE JudgeResult(tc.id, "WA", actual, expected, b.elapsed_ms, <<>>)

\* mutant of ResultCompleted: the texts are compared as they are
ResultCompletedRaw(tc, time_limit_s, b) ==
    LET stdout_str == Decode(b.stdout)
    IN  IF b.elapsed_ms > (time_limit_s * MsPerS) + SlackMs
        THEN JudgeResult(tc.id, "TLE", <<>>, tc.expected_output,
                         b.elapsed_ms, MsgTimeLimit)
        ELSE IF b.returncode # 0
        THEN JudgeResult(tc.id, "RE", stdout_str, tc.expected_output,
                         b.elapsed_ms, Take(Decode(b.stderr), StderrCap))
        ELSE IF stdout_str = tc.expected_output
        THEN JudgeResult(tc.id, "AC", stdout_str, tc.expected_output,
                         b.elapsed_ms, <<>>)
        ELSE JudgeResult(tc.id, "WA", stdout_str, tc.expected_output,
                         b.elapsed_ms, <<>>)

\* mutant of ResultCompleted: anything on the error stream counts as a
\* runtime error
ResultCompletedStderrFails(tc, time_limit_s, b) ==
    LET stdout_str == Decode(b.stdout)
        stderr_str == Decode(b.stderr)
        actual == _normalize_output(stdout_str)
        expected == _normalize_output(tc.expected_output)
    IN  IF b.elapsed_ms > (time_limit_s * MsPerS) + SlackMs
        THEN JudgeResult(tc.id, "TLE", <<>>, tc.expected_output,
                         b.elapsed_ms, MsgTimeLimit)
        ELSE IF b.returncode # 0 \/ stderr_str # <<>>
        THEN JudgeResult(tc.id, "RE", stdout_str, tc.expected_output,
                         b.elapsed_ms, Take(stderr_str, StderrCap))
        ELSE IF actual = expected
        THEN JudgeResult(tc.id, "AC", actual, expected, b.elapsed_ms, <<>>)
        ELSE JudgeResult(tc.id, "WA", actual, expected, b.elapsed_ms, <<>>)

\* mutant of ResultCompleted: a child that completed is never TLE
ResultCompletedNoSlack(tc, time_limit_s, b) ==
    LET stdout_str == Decode(b.stdout)
        actual == _normalize_output(stdout_str)
        expected == _normalize_output(tc.expected_output)
    IN  IF b.returncode # 0
        THEN JudgeResult(tc.id, "RE", stdout_str, tc.expected_output,
                         b.elapsed_ms, Take(Decode(b.stderr), StderrCap))
        ELSE IF actual = expected
        THEN JudgeResult(tc.id, "AC", actual, expected, b.elapsed_ms, <<>>)
        ELSE JudgeResult(tc.id, "WA", actual, expected, b.elapsed_ms, <<>>)

\* lines 213-254: communicate returned within the effective timeout
ResultCompleted(tc, time_limit_s, b) ==
    LET elapsed_ms == b.elapsed_ms
        stdout_str == Decode(b.stdout)
        stderr_str == Decode(b.stderr)
        actual == _normalize_output(stdout_str)
        expected == _normalize_output(tc.expected_output)
    IN  IF elapsed_ms > (time_limit_s * MsPerS) + SlackMs
        THEN JudgeResult(tc.id, "TLE", <<>>, tc.expected_output,
                         elapsed_ms, MsgTimeLimit)
        ELSE IF b.returncode # 0
        THEN JudgeResult(tc.id, "RE", stdout_str, tc.expected_output,
                         elapsed_ms, Take(stderr_str, StderrCap))
        ELSE IF actual = expected
        THEN JudgeResult(tc.id, "AC", actual, expected, elapsed_ms, <<>>)
        ELSE JudgeResult(tc.id, "WA", actual, expected, elapsed_ms, <<>>)

\* lines 256-261
ResultMemoryError(tc) ==
    JudgeResult(tc.id, "RE", <<>>, tc.expected_output, 0, MsgMemoryLimit)

\* mutant of ResultException: a child that cannot be started is reported
\* as a compile error of that case
ResultExceptionAsCE(tc, exc) ==
    JudgeResult(tc.id, "CE", <<>>, tc.expected_output, 0, Take(exc, ExcCap))

\* lines 262-267
ResultException(tc, exc) ==
    JudgeResult(tc.id, "RE", <<>>, tc.expected_output, 0, Take(exc, ExcCap))

\* ------------------------------------------------------------------ state
VARIABLES
    language,         \* argument: the language identifier
    test_cases,       \* argument: the TestCase rows, in the order given
    time_limit_ms,    \* argument
    platform,         \* sys.platform: "linux" or "win32"
    tmpdir,           \* what the temporary directory's path holds
    pc,               \* PENDING, COMPILING, DRAINING, RUNNING, CE, AGGREGATED,
                      \* FAILED, RETURNED, RAISED
    time_limit_s,     \* local of judge_submission
    work_dir,         \* local: the directory mkdtemp returned, "" before
    workspace,        \* the directory itself: none, held, removed, left
    success,          \* local: what compile_code returned
    executable_path,  \* local: what compile_code returned
    error,            \* local: what compile_code returned
    results,          \* local: the result dicts so far
    passed,           \* local
    overall_verdict,  \* local
    i,                \* the test case the for loop is at (1-based)
    runpc,            \* inside run_test_case: idle, communicate, kill
    proc,             \* what the child of the current run does
    report,           \* the dict handed to the caller
    exception,        \* the exception on its way to the caller
    children,         \* history: what the child of each finished run did
    trace,            \* history: the calls made so far, in order
    alive,            \* the processes started by this invocation still running
    artifacts,        \* history: the path each run command was built from
    input_text,       \* a text _normalize_output is applied to
    normal_form,      \* _normalize_output(input_text)
    variant,          \* a second text, made from input_text by `edit`
    variant_form,     \* _normalize_output(variant)
    edit,             \* how far the comparison is: none, normalized, or the
                      \* edit that made variant
    fs,               \* the temporary directory: which directories exist and
                      \* the files in them, each with the worker that wrote it
    worker,           \* the request each worker is handling and how far it is
    db,               \* the tables: users, lti_sessions, submissions,
                      \* test_cases, and the problems' limits and solution
    session,          \* the Flask session of the browser (its cookie)
    minted,           \* the payloads _make_launch_token has signed so far
    response          \* what the last request was answered with

vars == <<language, test_cases, time_limit_ms, platform, tmpdir, pc,
          time_limit_s, work_dir, workspace, success, executable_path, error,
          results, passed, overall_verdict, i, runpc, proc, report, exception, children, trace,
          alive, artifacts, input_text, normal_form, variant, variant_form, edit,
          fs, worker, db, session, minted, response>>

judge == <<language, test_cases, time_limit_ms, platform, tmpdir, pc,
           time_limit_s, work_dir, workspace, success, executable_path, error,
           results, passed, overall_verdict, i, runpc, proc, report, exception,
           children, trace, alive, artifacts>>

texts == <<input_text, normal_form, variant, variant_form, edit>>

pool == <<fs, worker>>

web == <<db, session, minted, response>>

inputs == <<language, test_cases, time_limit_ms, platform, tmpdir>>

compiled == <<success, executable_path, error>>

NoProc == [kind |-> NONE, returncode |-> 0, stdout |-> <<>>, stderr |-> <<>>,
           elapsed_ms |-> 0, desc |-> "none", exc |-> <<>>]

NoReport == [verdict |-> NONE, score |-> [num |-> 0, den |-> 1],
             results |-> <<>>, error |-> <<>>]

Event(ev, tc) == [ev |-> ev, tc |-> tc]

Process(role, tc) == [role |-> role, tc |-> tc]

\* ------------------------------------------------------- bounded inputs
\* "long" stands for an identifier of CompileErrCap + Over characters that the
\* registry does not hold, "java" for a short one
Languages == {"python", "cpp", "java", "long"}
TimeLimits == {500, 2000}
Platforms == {"linux", "win32"}
TmpDirs == {"plain", "space", "quote"}

\* primary keys of the TestCase rows: distinct, in no particular order
CaseId(k) == 50 - k

TestCase(k, expected_output) ==
    [id |-> CaseId(k), input_data |-> <<"1">>, expected_output |-> expected_output]

ExpectedTexts ==
    {<<>>, <<"a">>, <<"a", SP, LF>>, <<"b">>, <<"a", LF, LF, "b">>, <<RC>>,
     Rep("a", ExpectedCap + Over)}

OutTexts ==
    {<<>>, <<"a">>, <<"a", LF>>, <<"a", SP, CR, LF, LF>>, <<SP, "a">>,
     <<"a", LF, LF, "b">>, <<BAD>>, <<"b">>, Rep("a", ActualCap + Over)}

ErrTexts == {<<>>, <<"e">>, Rep("e", StderrCap + Over)}

\* coarse family: up to MaxCases cases, all expecting "a"
CoarseCases ==
    UNION {[1..n -> {<<"a">>}] : n \in 0..MaxCases}

\* fine family: one case, any expected text
FineCases == [1..1 -> ExpectedTexts]

ElapsedChoices(limit_s) ==
    {10, limit_s * MsPerS + SlackMs, limit_s * MsPerS + SlackMs + 1,
     limit_s * MsPerS + GraceMs + Over}

Exited(returncode, stdout, stderr, elapsed_ms) ==
    [NoProc EXCEPT !.kind = "exit", !.returncode = returncode, !.stdout = stdout,
                   !.stderr = stderr, !.elapsed_ms = elapsed_ms]

Hanging == {[NoProc EXCEPT !.kind = "hang", !.desc = d] :
                d \in {"none", "group", "escaped"}}

CoarseBehaviours(limit_s) ==
    {Exited(0, <<"a", LF>>, <<>>, 10),
     Exited(0, <<"b">>, <<>>, 10),
     Exited(1, <<"a">>, <<"e">>, 10),
     Exited(0, <<"a">>, <<>>, limit_s * MsPerS + SlackMs + 1),
     [NoProc EXCEPT !.kind = "nospawn", !.exc = MsgNoSuchFile]}
    \cup Hanging

FineBehaviours(limit_s) ==
    {Exited(rc, out, err, ms) :
        rc \in {0, 1}, out \in OutTexts, err \in ErrTexts,
        ms \in ElapsedChoices(limit_s)}
    \cup Hanging
    \cup {[NoProc EXCEPT !.kind = "nospawn", !.exc = x] :
            x \in {MsgNoSuchFile, Rep("x", ExcCap + Over)}}
    \cup {[NoProc EXCEPT !.kind = "oom"]}

\* python3 started on a file name cut at the space: it cannot open it
SplitBehaviours == {Exited(2, <<>>, <<"e">>, 10)}

ChildBehaviours(argv, cases, limit_s) ==
    IF argv = "split" THEN SplitBehaviours
    ELSE IF Len(cases) = 1 THEN FineBehaviours(limit_s)
    ELSE CoarseBehaviours(limit_s)

\* ------------------------------------------- workspaces of parallel requests
\* Several requests at once, each reduced to what it does to the temporary
\* directory: judge_submission (l.312-360) and generate_output
\* (admin_routes.py l.214-242).
Workers == 1..MaxWorkers

Kinds == {"judge", "gen"}

\* tempfile.mkdtemp(prefix=...): the prefix of each kind of request
Prefix(kind) ==
    IF kind = "judge" THEN "judge_" ELSE "gen_"

\* the directory names mkdtemp can come up with
DirNames == [prefix : {Prefix(k) : k \in Kinds}, suffix : 1..MaxSuffix]

NoDir == [prefix |-> "", suffix |-> 0]

Absent == [exists |-> FALSE, files |-> {}]

File(name, owner) == [name |-> name, owner |-> owner]

Idle == [pc |-> "IDLE", dir |-> NoDir, compiled |-> FALSE, lost |-> FALSE]

\* no request is being handled and nothing is in the temporary directory
NoRequests ==
    /\ fs = [d \in DirNames |-> Absent]
    /\ worker = [w \in Workers |-> Idle]

\* ------------------------------------------------- tables and the session
\* lti_user_id of the accounts: one account of the LMS, and the two
\* /dev/login makes
LmsUser == "u1"
DevUser(role) == IF role = "instructor" THEN "dev-instructor" ELSE "dev-student"
UserKeys == {LmsUser, DevUser("instructor"), DevUser("student")}

ProblemIds == {1, 2}

\* no key 'user_id' in the session
NoSession ==
    [user_id |-> NONE, role |-> NONE, lti_session_id |-> 0,
     locked_problem_id |-> 0, locked_problem_ids |-> <<>>]

NoTarget == [endpoint |-> NONE, problem_id |-> 0]

\* send_grade was not called
NoGrade == [num |-> 0, den |-> 0]

\* skew: history, now - oauth_timestamp of the launch that was answered
NoResponse ==
    [route |-> NONE, status |-> 0, target |-> NoTarget, error |-> NONE,
     grade |-> NoGrade, results |-> <<>>, skew |-> 0]

\* problem.solution_code is empty
NoCode == [stdout |-> <<>>, elapsed_ms |-> 0, returncode |-> 0, blank |-> TRUE]

EmptyDb ==
    [users |-> [u \in UserKeys |-> NONE],
     lti_sessions |-> <<>>,
     submissions |-> <<>>,
     test_cases |-> {},
     next_id |-> 1,
     time_limit_ms |-> 2000,
     solution |-> NoCode]

NoWeb ==
    /\ db = EmptyDb
    /\ session = NoSession
    /\ minted = {}
    /\ response = NoResponse


\* ------------------------------------------------------------------- Init
Init ==
    /\ language \in Languages
    /\ \E exp \in CoarseCases \cup FineCases :
          test_cases = [k \in 1..Len(exp) |-> TestCase(k, exp[k])]
    /\ time_limit_ms \in TimeLimits
    /\ platform \in Platforms
    /\ tmpdir \in TmpDirs
    /\ pc = "PENDING"
    /\ time_limit_s = 0
    /\ work_dir = ""
    /\ workspace = "none"
    /\ success = FALSE
    /\ executable_path = NoPath
    /\ error = <<>>
    /\ results = <<>>
    /\ passed = 0
    /\ overall_verdict = NONE
    /\ i = 0
    /\ runpc = "idle"
    /\ proc = NoProc
    /\ report = NoReport
    /\ exception = NoException
    /\ children = <<>>
    /\ trace = <<>>
    /\ alive = {}
    /\ artifacts = <<>>
    /\ input_text = <<>>
    /\ normal_form = <<>>
    /\ variant = <<>>
    /\ variant_form = <<>>
    /\ edit = "none"
    /\ NoRequests
    /\ NoWeb

\* ---------------------------------------------------------------- actions
\* judge_submission, lines 312-313
Acquire ==
    /\ pc = "PENDING"
    /\ time_limit_s' = Max({MinLimitS, time_limit_ms \div MsPerS})
    /\ work_dir' = tmpdir
    /\ workspace' = "held"
    /\ trace' = Append(trace, Event("mkdtemp", 0))
    /\ pc' = "COMPILING"
    /\ UNCHANGED <<inputs, compiled, results, passed, overall_verdict, i, runpc,
                   proc, report, exception, children, alive,
                   artifacts>>
    /\ UNCHANGED <<texts, pool, web>>

\* mutant of CompileOutcome: a failed compile does not stop the run
CompileOutcomeGoesOn(r) ==
    IF r.raised # NoException THEN "FAILED" ELSE "RUNNING"

\* judge_submission, lines 317-324: where the compile result sends control
CompileOutcome(r) ==
    IF r.raised # NoException THEN "FAILED"
    ELSE IF ~r.success THEN "CE"
    ELSE "RUNNING"

\* judge_submission, lines 315-329: compile_code and the branch on its result.
\* On a compile timeout subprocess.run kills the shell it started and, on
\* POSIX, only waits for that shell: a compiler the shell started can outlive
\* the call. On win32 it then reads the pipes to their end (communicate
\* with no timeout), which the compiler holds open: compile_code stays in
\* subprocess.run, DRAINING, for as long as the compiler runs.
Compile ==
    /\ pc = "COMPILING"
    /\ \E cb \in CompileBehaviours(language, work_dir) :
          LET r == compile_code(language, work_dir, platform, cb)
              launched == CompileLaunches(language, cb)
              outlives == launched /\ cb.kind = "timeout" /\ cb.orphan
              next == IF outlives /\ platform = "win32" THEN "DRAINING"
                      ELSE CompileOutcome(r)
              pending == next \in {"FAILED", "DRAINING"}
          IN  /\ trace' = trace \o <<Event("compile_code", 0)>> \o
                          (IF launched THEN <<Event("compiler", 0)>> ELSE <<>>)
              /\ alive' = IF outlives THEN alive \cup {Process("compiler", 0)}
                          ELSE alive
              /\ pc' = next
              /\ exception' = IF next = "FAILED" THEN r.raised ELSE exception
              /\ report' = IF next = "CE"
                           THEN [verdict |-> "CE", score |-> [num |-> 0, den |-> 1],
                                 results |-> <<>>, error |-> r.error]
                           ELSE report
              /\ success' = IF pending THEN success ELSE r.success
              /\ executable_path' = IF pending THEN executable_path
                                    ELSE r.executable_path
              /\ error' = IF pending THEN error ELSE r.error
              /\ results' = IF next = "RUNNING" THEN <<>> ELSE results
              /\ passed' = IF next = "RUNNING" THEN 0 ELSE passed
              /\ overall_verdict' = IF next = "RUNNING" THEN "AC" ELSE overall_verdict
              /\ i' = IF next = "RUNNING" THEN 1 ELSE i
    /\ UNCHANGED <<inputs, time_limit_s, work_dir, workspace, runpc, proc,
                   children,
                   artifacts>>
    /\ UNCHANGED <<texts, pool, web>>

\* compile_code, lines 122-137 on win32: the compiler that held the pipes of
\* the timed-out compile ends, subprocess.run raises TimeoutExpired at last
\* and judge_submission returns the CE report. Nothing in the judge makes
\* this happen: it is the compiler's step.
CompilerEnds ==
    /\ pc = "DRAINING"
    /\ alive' = alive \ {Process("compiler", 0)}
    /\ success' = FALSE
    /\ executable_path' = NoPath
    /\ error' = MsgCompileTimeout
    /\ report' = [verdict |-> "CE", score |-> [num |-> 0, den |-> 1],
                  results |-> <<>>, error |-> MsgCompileTimeout]
    /\ pc' = "CE"
    /\ UNCHANGED <<inputs, time_limit_s, work_dir, workspace, results, passed,
                   overall_verdict, i, runpc, proc, exception, children, trace,
                   artifacts>>
    /\ UNCHANGED <<texts, pool, web>>

\* mutant of OverallAfter: the last verdict that is not AC wins
OverallAfterLast(overall, verdict) ==
    IF verdict = "AC" THEN overall ELSE verdict

\* judge_submission, lines 339-343
OverallAfter(overall, verdict) ==
    IF verdict = "AC" THEN overall
    ELSE IF overall = "AC" THEN verdict
    ELSE overall

\* mutant of PassedAfter: every result that is not a timeout counts
PassedAfterLenient(count, verdict) ==
    IF verdict # "TLE" THEN count + 1 ELSE count

\* mutant of PassedAfter: a case counts when the program ran to a clean
\* exit, whatever it printed
PassedAfterCleanExit(count, verdict) ==
    IF verdict \in {"AC", "WA"} THEN count + 1 ELSE count

\* judge_submission, lines 339-340
PassedAfter(count, verdict) ==
    IF verdict = "AC" THEN count + 1 ELSE count

\* mutant of Record: the loop breaks at the first result that is not AC
RecordThenBreak(result, b) ==
    /\ results' = Append(results, result)
    /\ children' = Append(children, b)
    /\ passed' = IF result.verdict = "AC" THEN passed + 1 ELSE passed
    /\ overall_verdict' = IF result.verdict = "AC" \/ overall_verdict # "AC"
                          THEN overall_verdict
                          ELSE result.verdict
    /\ i' = IF result.verdict = "AC" THEN i + 1 ELSE Len(test_cases) + 1
    /\ runpc' = "idle"
    /\ proc' = NoProc
    /\ UNCHANGED <<pc, exception>>

\* judge_submission, lines 337-343 and the loop's advance: run_test_case
\* returned `result` for the case the loop is at
Record(result, b) ==
    /\ results' = Append(results, result)
    /\ children' = Append(children, b)
    /\ passed' = PassedAfter(passed, result.verdict)
    /\ overall_verdict' = OverallAfter(overall_verdict, result.verdict)
    /\ i' = i + 1
    /\ runpc' = "idle"
    /\ proc' = NoProc
    /\ UNCHANGED <<pc, exception>>

\* mutant of Spawn: the child is started and the loop goes on to the next
\* case without waiting for it
SpawnAhead ==
    /\ pc = "RUNNING"
    /\ runpc = "idle"
    /\ i <= Len(test_cases)
    /\ LET tc == test_cases[i]
           cmd == RunCommand(language, executable_path, platform)
       IN  IF cmd.status = "raise"
           THEN /\ pc' = "FAILED"
                /\ exception' = [type |-> "ValueError", msg |-> MsgNoClosingQuote]
                /\ UNCHANGED <<results, children, passed, overall_verdict, i,
                               runpc, proc, trace, alive, artifacts>>
           ELSE IF cmd.status = "unsupported"
           THEN /\ Record(ResultUnsupported(tc), NoProc)
                /\ trace' = Append(trace, Event("result", i))
                /\ UNCHANGED <<alive, artifacts>>
           ELSE \E b \in ChildBehaviours(cmd.argv, test_cases, time_limit_s) :
                   IF b.kind = "nospawn"
                   THEN /\ Record(ResultException(tc, b.exc), b)
                        /\ trace' = Append(trace, Event("result", i))
                        /\ artifacts' = Append(artifacts, cmd.file)
                        /\ UNCHANGED alive
                   ELSE /\ proc' = NoProc
                        /\ artifacts' = Append(artifacts, cmd.file)
                        /\ runpc' = "idle"
                        /\ trace' = trace \o Started(platform, i)
                        /\ alive' = alive \cup {Process("child", i)} \cup
                                    (IF b.desc = "none" THEN {}
                                     ELSE {Process("descendant", i)})
                        /\ i' = i + 1
                        /\ UNCHANGED <<pc, exception, results, children, passed,
                                       overall_verdict>>
    /\ UNCHANGED <<inputs, time_limit_s, work_dir, workspace, compiled, report>>
    /\ UNCHANGED <<texts, pool, web>>

\* run_test_case, lines 159-196: the run command, then Popen
Spawn ==
    /\ pc = "RUNNING"
    /\ runpc = "idle"
    /\ i <= Len(test_cases)
    /\ LET tc == test_cases[i]
           cmd == RunCommand(language, executable_path, platform)
       IN  IF cmd.status = "raise"
           THEN /\ pc' = "FAILED"
                /\ exception' = [type |-> "ValueError", msg |-> MsgNoClosingQuote]
                /\ UNCHANGED <<results, children, passed, overall_verdict, i,
                               runpc, proc, trace, alive, artifacts>>
           ELSE IF cmd.status = "unsupported"
           THEN /\ Record(ResultUnsupported(tc), NoProc)
                /\ trace' = Append(trace, Event("result", i))
                /\ UNCHANGED <<alive, artifacts>>
           ELSE \E b \in ChildBehaviours(cmd.argv, test_cases, time_limit_s) :
                   IF b.kind = "nospawn"
                   THEN /\ Record(ResultException(tc, b.exc), b)
                        /\ trace' = Append(trace, Event("result", i))
                        /\ artifacts' = Append(artifacts, cmd.file)
                        /\ UNCHANGED alive
                   ELSE /\ proc' = b
                        /\ artifacts' = Append(artifacts, cmd.file)
                        /\ runpc' = "communicate"
                        /\ trace' = trace \o Started(platform, i)
                        /\ alive' = alive \cup {Process("child", i)} \cup
                                    (IF b.desc = "none" THEN {}
                                     ELSE {Process("descendant", i)})
                        /\ UNCHANGED <<pc, exception, results, children, passed,
                                       overall_verdict, i>>
    /\ UNCHANGED <<inputs, time_limit_s, work_dir, workspace, compiled, report>>
    /\ UNCHANGED <<texts, pool, web>>

\* run_test_case, lines 198-202 and 213-261: communicate returns or raises
Communicate ==
    /\ pc = "RUNNING"
    /\ runpc = "communicate"
    /\ LET tc == test_cases[i]
       IN  IF TimeoutExpired(proc, time_limit_s)
           THEN /\ runpc' = "kill"
                /\ UNCHANGED <<pc, exception, results, children, passed,
                               overall_verdict, i, proc, trace, alive>>
           ELSE IF proc.kind = "oom"
           THEN /\ Record(ResultMemoryError(tc), proc)
                /\ trace' = Append(trace, Event("result", i))
                /\ \E still \in BOOLEAN :
                      alive' = IF still THEN alive
                               ELSE alive \ {Process("child", i)}
           ELSE /\ Record(ResultCompleted(tc, time_limit_s, proc), proc)
                /\ trace' = Append(trace, Event("result", i))
                /\ alive' = alive \ {Process("child", i)}
    /\ UNCHANGED <<inputs, time_limit_s, work_dir, workspace, compiled, report,
                   artifacts>>
    /\ UNCHANGED <<texts, pool, web>>

\* _kill_process_tree, lines 270-291: what is left of the child's tree.
\* how = "tree": killpg / taskkill /T went through; a descendant that left
\* the process group (or, on win32, was re-parented) survives.
\* how = "direct": the tree kill raised and proc.kill() ended the child only.
\* how = "none": taskkill ended with an error code, which is not looked at
\* and raises nothing, so the fallback is not tried, and the wait of two
\* seconds runs out.
_kill_process_tree(procs, tc, how, desc) ==
    IF how = "tree" /\ desc # "escaped"
    THEN procs \ {Process("child", tc), Process("descendant", tc)}
    ELSE IF how = "none" THEN procs
    ELSE procs \ {Process("child", tc)}

\* what the kill can come to on a platform: os.killpg either goes through or
\* raises; subprocess.run(['taskkill', ...]) can also return a failure
KillOutcomes(sys_platform) ==
    IF sys_platform = "win32" THEN {"tree", "direct", "none"}
    ELSE {"tree", "direct"}

\* run_test_case, lines 203-211: the TimeoutExpired handler
\* Kill as it would be with one retry: the first timeout of a case is not
\* recorded, the case is started again
KillThenRetry ==
    /\ pc = "RUNNING"
    /\ runpc = "kill"
    /\ \E how \in KillOutcomes(platform) :
          alive' = _kill_process_tree(alive, i, how, proc.desc)
    /\ IF \E k \in 1..Len(trace) : trace[k] = Event("kill_tree", i)
       THEN /\ trace' = trace \o <<Event("kill_tree", i), Event("result", i)>>
            /\ Record(ResultTimeout(test_cases[i], time_limit_s), proc)
       ELSE /\ trace' = Append(trace, Event("kill_tree", i))
            /\ runpc' = "idle"
            /\ proc' = NoProc
            /\ UNCHANGED <<pc, exception, results, children, passed,
                           overall_verdict, i>>
    /\ UNCHANGED <<inputs, time_limit_s, work_dir, workspace, compiled, report,
                   artifacts>>
    /\ UNCHANGED <<texts, pool, web>>

Kill ==
    /\ pc = "RUNNING"
    /\ runpc = "kill"
    /\ \E how \in KillOutcomes(platform) :
          alive' = _kill_process_tree(alive, i, how, proc.desc)
    /\ trace' = trace \o <<Event("kill_tree", i), Event("result", i)>>
    /\ Record(ResultTimeout(test_cases[i], time_limit_s), proc)
    /\ UNCHANGED <<inputs, time_limit_s, work_dir, workspace, compiled, report,
                   artifacts>>
    /\ UNCHANGED <<texts, pool, web>>

\* mutant of Score: no test case counts as a full pass
ScoreVacuousOne(count, total) ==
    IF total > 0 THEN [num |-> count, den |-> total] ELSE [num |-> 1, den |-> 1]

\* judge_submission, lines 345-346
Score(count, total) ==
    IF total > 0 THEN [num |-> count, den |-> total] ELSE [num |-> 0, den |-> 1]

\* judge_submission, lines 345-353: the loop is over
Aggregate ==
    /\ pc = "RUNNING"
    /\ runpc = "idle"
    /\ i > Len(test_cases)
    /\ report' = [verdict |-> overall_verdict,
                  score |-> Score(passed, Len(test_cases)),
                  results |-> results,
                  error |-> <<>>]
    /\ pc' = "AGGREGATED"
    /\ UNCHANGED <<inputs, time_limit_s, work_dir, workspace, compiled, results,
                   passed, overall_verdict, i, runpc, proc, exception, children,
                   trace, alive,
                   artifacts>>
    /\ UNCHANGED <<texts, pool, web>>

\* judge_submission, lines 355-360: the finally block, then the return or
\* the re-raise. rmtree(ignore_errors=True) may leave the directory behind.
\* Release as it would be if a failed removal were not swallowed: the error
\* of rmtree leaves the finally block and replaces whatever the body had
\* decided.
ReleaseRaising ==
    /\ pc \in {"CE", "AGGREGATED", "FAILED"}
    /\ \E left \in BOOLEAN :
          /\ workspace' = IF left THEN "left" ELSE "removed"
          /\ pc' = IF left \/ pc = "FAILED" THEN "RAISED" ELSE "RETURNED"
          /\ exception' = IF left THEN [type |-> "OSError", msg |-> <<>>]
                          ELSE exception
    /\ trace' = Append(trace, Event("rmtree", 0))
    /\ UNCHANGED <<inputs, time_limit_s, work_dir, compiled, results, passed,
                   overall_verdict, i, runpc, proc, report, children,
                   alive,
                   artifacts>>
    /\ UNCHANGED <<texts, pool, web>>

Release ==
    /\ pc \in {"CE", "AGGREGATED", "FAILED"}
    /\ \E left \in BOOLEAN :
          workspace' = IF left THEN "left" ELSE "removed"
    /\ trace' = Append(trace, Event("rmtree", 0))
    /\ pc' = IF pc = "FAILED" THEN "RAISED" ELSE "RETURNED"
    /\ UNCHANGED <<inputs, time_limit_s, work_dir, compiled, results, passed,
                   overall_verdict, i, runpc, proc, report, exception, children,
                   alive,
                   artifacts>>
    /\ UNCHANGED <<texts, pool, web>>

\* the steps judge_submission takes by itself
JudgeStep ==
    \/ Acquire
    \/ Compile
    \/ Spawn
    \/ Communicate
    \/ Kill
    \/ Aggregate
    \/ Release

Next ==
    \/ Acquire
    \/ Compile
    \/ CompilerEnds
    \/ Spawn
    \/ Communicate
    \/ Kill
    \/ Aggregate
    \/ Release

Spec == Init /\ [][Next]_vars

\* ------------------------------------------ _normalize_output on its own
\* The comparator as a function of text: a text is drawn, normalised, and
\* then compared with a second text made from it.
Alphabet == {"a", SP, TAB, LF, CR}

Texts == UNION {[1..n -> Alphabet] : n \in 0..MaxLen}

\* no judge_submission is under way
NotJudging ==
    /\ language = "python"
    /\ test_cases = <<>>
    /\ time_limit_ms = 2000
    /\ platform = "linux"
    /\ tmpdir = "plain"
    /\ pc = "PENDING"
    /\ time_limit_s = 0
    /\ work_dir = ""
    /\ workspace = "none"
    /\ success = FALSE
    /\ executable_path = NoPath
    /\ error = <<>>
    /\ results = <<>>
    /\ passed = 0
    /\ overall_verdict = NONE
    /\ i = 0
    /\ runpc = "idle"
    /\ proc = NoProc
    /\ report = NoReport
    /\ exception = NoException
    /\ children = <<>>
    /\ trace = <<>>
    /\ alive = {}
    /\ artifacts = <<>>

NormInit ==
    /\ NotJudging
    /\ input_text \in Texts
    /\ normal_form = <<>>
    /\ variant = <<>>
    /\ variant_form = <<>>
    /\ edit = "none"
    /\ NoRequests
    /\ NoWeb

\* t with w put in after its first p characters
InsertAt(t, p, w) == SubSeq(t, 1, p) \o w \o SubSeq(t, p + 1, Len(t))

\* the places where a line of t ends: the end of the text, before an LF,
\* and before the CR of a CR LF pair
LineEnds(t) ==
    {p \in 0..Len(t) :
        \/ p = Len(t)
        \/ t[p + 1] = LF
        \/ (p + 2 <= Len(t) /\ t[p + 1] = CR /\ t[p + 2] = LF)}

Padding == {<<SP>>, <<TAB>>, <<SP, TAB>>, <<TAB, SP, SP>>}

BlankLine == {<<LF>>, <<LF, SP>>, <<LF, TAB>>, <<CR, LF>>}

RECURSIVE Flatten(_)
Flatten(ss) == IF ss = <<>> THEN <<>> ELSE Head(ss) \o Flatten(Tail(ss))

\* one to MaxBlank blank lines, as they follow the end of a text
BlankTails ==
    {Flatten(ls) : ls \in UNION {[1..n -> BlankLine] : n \in 1..MaxBlank}}

RECURSIVE JoinWith(_, _)
JoinWith(lines, sep) ==
    IF Len(lines) = 0 THEN <<>>
    ELSE IF Len(lines) = 1 THEN lines[1]
    ELSE lines[1] \o sep \o JoinWith(Tail(lines), sep)

\* t with every LF written as sep
Respell(t, sep) == JoinWith(SplitLF(t), sep)

\* _normalize_output(input_text)
Normalize ==
    /\ edit = "none"
    /\ normal_form' = _normalize_output(input_text)
    /\ edit' = "normalized"
    /\ UNCHANGED <<input_text, variant, variant_form>>
    /\ UNCHANGED <<judge, pool, web>>

\* _normalize_output(t) for a text t made from input_text
Compare(how, t) ==
    /\ edit = "normalized"
    /\ variant' = t
    /\ variant_form' = _normalize_output(t)
    /\ edit' = how
    /\ UNCHANGED <<input_text, normal_form>>
    /\ UNCHANGED <<judge, pool, web>>

\* the normal form is normalised again
NormalizeAgain == Compare("again", normal_form)

\* spaces and tabs are appended to the end of one line
PadLine ==
    \E p \in LineEnds(input_text), w \in Padding :
        Compare("pad", InsertAt(input_text, p, w))

\* blank lines are appended to the end of the text
AppendBlankLines ==
    \E tail \in BlankTails : Compare("blank", input_text \o tail)

\* every LF is written CR LF
ToCRLF == Compare("crlf", Respell(input_text, <<CR, LF>>))

\* every CR LF is written LF
ToLF == Compare("lf", JoinWith(SplitLF(ReplaceCRLF(input_text)), <<LF>>))

\* every LF is written CR, the line ending of the classic Mac OS
ToCR == Compare("cr", Respell(input_text, <<CR>>))

NormNext ==
    \/ Normalize
    \/ NormalizeAgain
    \/ PadLine
    \/ AppendBlankLines
    \/ ToCRLF
    \/ ToLF
    \/ ToCR

NormSpec == NormInit /\ [][NormNext]_vars

\* ------------------------------------------------ parallel requests
\* no text is being compared
NoTexts ==
    /\ input_text = <<>>
    /\ normal_form = <<>>
    /\ variant = <<>>
    /\ variant_form = <<>>
    /\ edit = "none"

PoolInit ==
    /\ NotJudging
    /\ NoTexts
    /\ NoWeb
    /\ NoRequests

\* mutant of FreshDirs: the directory is made with exist_ok, so a name that
\* is taken can be drawn again
FreshDirsAny(files, prefix) ==
    {d \in DirNames : d.prefix = prefix}

\* tempfile.mkdtemp: it draws a random name and makes the directory with
\* os.mkdir, which refuses a name that exists; it then draws again. So it
\* returns a name that was not there.
FreshDirs(files, prefix) ==
    {d \in DirNames : d.prefix = prefix /\ ~files[d].exists}

\* open(path, 'w') or the compiler's -o: the file of that name is replaced
WriteFile(files, name, owner) ==
    {f \in files : f.name # name} \cup {File(name, owner)}

\* a request of some kind comes in, a worker takes it and gets as far as
\* work_dir = tempfile.mkdtemp(prefix=...)
AcquireDir(w) ==
    /\ worker[w].pc = "IDLE"
    /\ \E kind \in Kinds :
          \E d \in FreshDirs(fs, Prefix(kind)) :
             /\ fs' = [fs EXCEPT ![d] = [exists |-> TRUE, files |-> fs[d].files]]
             /\ worker' = [worker EXCEPT ![w].pc = "COMPILING", ![w].dir = d]

\* compile_code(code, language, work_dir): the source file is written and,
\* for a compiled language, the compiler writes the artifact next to it
CompileIn(w) ==
    /\ worker[w].pc = "COMPILING"
    /\ LET d == worker[w].dir
       IN  IF ~fs[d].exists
           THEN /\ worker' = [worker EXCEPT ![w].pc = "FAILED", ![w].lost = TRUE]
                /\ UNCHANGED fs
           ELSE \E outcome \in {"source", "artifact", "fail", "raise"} :
                   LET written == IF outcome = "raise" THEN fs[d].files
                                  ELSE WriteFile(fs[d].files, "source", w)
                       built == IF outcome = "artifact"
                                THEN WriteFile(written, "artifact", w)
                                ELSE written
                   IN  /\ fs' = [fs EXCEPT ![d].files = built]
                       /\ worker' = [worker EXCEPT
                             ![w].compiled = (outcome = "artifact"),
                             ![w].pc = IF outcome = "raise" THEN "FAILED"
                                       ELSE IF outcome = "fail" THEN "CE"
                                       ELSE "RUNNING"]

\* run_test_case(executable_path, ..., work_dir) for the request's inputs:
\* the child is started from the artifact (the source file when the
\* language has no compile step)
RunIn(w) ==
    /\ worker[w].pc = "RUNNING"
    /\ LET d == worker[w].dir
           needed == File(IF worker[w].compiled THEN "artifact" ELSE "source", w)
       IN  worker' = [worker EXCEPT
                         ![w].pc = "AGGREGATED",
                         ![w].compiled = FALSE,
                         ![w].lost = ~fs[d].exists \/ needed \notin fs[d].files]
    /\ UNCHANGED fs

\* the directories that exist and that no request holds
LeftBehind ==
    {d \in DirNames : fs[d].exists /\ \A w \in Workers : worker[w].dir # d}

\* finally: shutil.rmtree(work_dir, ignore_errors=True), then the response.
\* rmtree removes what it can and goes on after an error: when the removal
\* fails the directory itself stays, and its name stays taken
ReleaseDir(w) ==
    /\ worker[w].pc \in {"CE", "AGGREGATED", "FAILED"}
    /\ LET d == worker[w].dir
       IN  \/ fs' = [fs EXCEPT ![d] = Absent]
           \/ /\ Cardinality(LeftBehind) < MaxLeft
              /\ fs[d].exists
              /\ fs' = [fs EXCEPT ![d].files = {}]
    /\ worker' = [worker EXCEPT ![w] = Idle]

PoolNext ==
    \/ \E w \in Workers : AcquireDir(w) /\ UNCHANGED <<judge, texts, web>>
    \/ \E w \in Workers : CompileIn(w) /\ UNCHANGED <<judge, texts, web>>
    \/ \E w \in Workers : RunIn(w) /\ UNCHANGED <<judge, texts, web>>
    \/ \E w \in Workers : ReleaseDir(w) /\ UNCHANGED <<judge, texts, web>>

PoolSpec == PoolInit /\ [][PoolNext]_vars

\* ------------------------------------------------------- requests and routes
MaxLaunches == 1      \* most rows of lti_sessions
MaxSubs == 2          \* most rows of submissions
MaxRows == 3          \* most TestCase rows ever inserted

TimestampWindow == 3000000   \* abs(now - timestamp) > 3000000
TokenMaxAge == 86400         \* verify_launch_token(token, max_age=86400)
FallbackMaxAge == 120        \* verify_launch_token(token, max_age=120)

Target(endpoint, problem_id) == [endpoint |-> endpoint, problem_id |-> problem_id]

\* a request without the _lt parameter
NoToken ==
    [user_id |-> NONE, role |-> NONE, lti_session_id |-> 0,
     locked_problem_id |-> 0, locked_problem_ids |-> <<>>, age |-> 0,
     sig |-> NONE]

\* URLSafeTimedSerializer.dumps: the payload, signed with SECRET_KEY.  A key
\* the dict does not hold reads as None (0, <<>>) through data.get
_make_launch_token(data) ==
    [user_id |-> data.user_id, role |-> data.role,
     lti_session_id |-> data.lti_session_id,
     locked_problem_id |-> data.locked_problem_id,
     locked_problem_ids |-> data.locked_problem_ids, age |-> 0, sig |-> "ok"]

\* the same token, presented when it is age seconds old
Aged(token, age) == [token EXCEPT !.age = age]

\* a token signed with another key
Forged ==
    [NoToken EXCEPT !.user_id = DevUser("instructor"), !.role = "instructor",
                    !.sig = "bad"]

TokenAges == {0, FallbackMaxAge + 1, TokenMaxAge + 1}

\* what a client can put in _lt
Presentable == {NoToken, Forged} \cup {Aged(t, a) : t \in minted, a \in TokenAges}

verify_launch_token(token, max_age) ==
    token.sig = "ok" /\ token.age <= max_age

\* app.py, before_request: the session and the set of signed payloads after it
BeforeRequest(token) ==
    IF session.user_id # NONE
    THEN IF token # NoToken
         THEN [session |-> session, minted |-> minted]
         ELSE [session |-> session,
               minted |-> minted \cup {_make_launch_token(
                   [user_id |-> session.user_id,
                    role |-> IF session.role = NONE THEN "student" ELSE session.role,
                    lti_session_id |-> session.lti_session_id,
                    locked_problem_id |-> 0,
                    locked_problem_ids |-> session.locked_problem_ids])}]
    ELSE IF token = NoToken
    THEN [session |-> session, minted |-> minted]
    ELSE IF verify_launch_token(token, TokenMaxAge)
    THEN [session |-> [session EXCEPT !.user_id = token.user_id,
                                      !.role = token.role,
                                      !.lti_session_id = token.lti_session_id,
                                      !.locked_problem_ids = token.locked_problem_ids],
          minted |-> minted]
    ELSE [session |-> session, minted |-> minted]

\* lti/auth.py, _restore_session_from_token: the fallback of the decorators
FallbackRestores(token) ==
    token # NoToken /\ verify_launch_token(token, FallbackMaxAge)
        /\ token.user_id # NONE

FallbackSession(sess, token) ==
    [sess EXCEPT !.user_id = token.user_id, !.role = token.role,
                 !.lti_session_id = token.lti_session_id]

\* require_lti_session: the session the view runs with, or no user_id (403)
require_lti_session(sess, token) ==
    IF sess.user_id # NONE THEN sess
    ELSE IF FallbackRestores(token) THEN FallbackSession(sess, token)
    ELSE sess

Forbidden(route, description) ==
    [NoResponse EXCEPT !.route = route, !.status = 403, !.error = description]

Served(route) ==
    [NoResponse EXCEPT !.route = route, !.status = 200]

Redirect(route, target) ==
    [NoResponse EXCEPT !.route = route, !.status = 302, !.target = target]

\* student_routes.py, _get_lock_info
LockedIds(sess) == sess.locked_problem_ids

IsSingle(sess) == Len(sess.locked_problem_ids) = 1

InSeq(x, s) == \E k \in 1..Len(s) : s[k] = x

\* ---------------------------------------------------------------- lti launch
Skews == {0, 300, 301, TimestampWindow, TimestampWindow + 1}

RoleStrings == {"Learner", "Instructor", "urn:lti:role:ims/lis/TeachingAssistant"}

\* a launch the LMS signed, and the same with one parameter changed
Signed(skew, roles, custom_problem_id, lis_outcome_service_url) ==
    [oauth_consumer_key |-> "key",
     lti_message_type |-> "basic-lti-launch-request",
     skew |-> skew,
     oauth_signature |-> "expected",
     roles |-> roles,
     custom_problem_id |-> custom_problem_id,
     lis_outcome_service_url |-> lis_outcome_service_url]

LaunchParams ==
    {Signed(0, roles, p, url) :
        roles \in RoleStrings, p \in {0, 1}, url \in BOOLEAN}
    \cup {Signed(skew, "Learner", 0, TRUE) : skew \in Skews}
    \cup {[Signed(0, "Instructor", 0, TRUE) EXCEPT !.oauth_consumer_key = "other"],
          [Signed(0, "Instructor", 0, TRUE) EXCEPT !.lti_message_type = "other"],
          [Signed(0, "Instructor", 0, TRUE) EXCEPT !.oauth_signature = "other"]}

Abs(n) == IF n < 0 THEN 0 - n ELSE n

\* lti/auth.py, validate_lti_request: the error message, NONE when valid
validate_lti_request(params) ==
    IF params.oauth_consumer_key # "key" THEN "Invalid consumer key"
    ELSE IF params.lti_message_type # "basic-lti-launch-request"
    THEN "Invalid LTI message type"
    ELSE IF Abs(params.skew) > TimestampWindow THEN "Request timestamp expired"
    ELSE IF params.oauth_signature # "expected" THEN "Invalid OAuth signature"
    ELSE NONE

\* lti/auth.py, extract_lti_user_data: the role
RoleOf(roles) ==
    IF roles \in {"Instructor", "urn:lti:role:ims/lis/TeachingAssistant"}
    THEN "instructor" ELSE "student"

LaunchTarget(role, locked_problem) ==
    IF role = "instructor" THEN Target("admin.dashboard", 0)
    ELSE IF locked_problem # 0 THEN Target("student.view_problem", locked_problem)
    ELSE Target("student.problem_list", 0)

\* POST /lti/launch
launch(params) ==
    LET before == BeforeRequest(NoToken)
        error_message == validate_lti_request(params)
        role == RoleOf(params.roles)
        lti_session_id == Len(db.lti_sessions) + 1
        sess_data == [user_id |-> LmsUser, role |-> role,
                      lti_session_id |-> lti_session_id,
                      locked_problem_id |-> params.custom_problem_id,
                      locked_problem_ids |-> <<>>]
    IN  IF error_message # NONE
        THEN /\ response' = [Forbidden("lti.launch", error_message) EXCEPT
                                 !.skew = params.skew]
             /\ session' = before.session
             /\ minted' = before.minted
             /\ UNCHANGED db
        ELSE /\ Len(db.lti_sessions) < MaxLaunches
             /\ db' = [db EXCEPT
                    !.users[LmsUser] = role,
                    !.lti_sessions = Append(@,
                        [user_id |-> LmsUser,
                         outcome_service_url |-> params.lis_outcome_service_url])]
             /\ session' = [before.session EXCEPT
                    !.user_id = sess_data.user_id,
                    !.role = sess_data.role,
                    !.lti_session_id = sess_data.lti_session_id,
                    !.locked_problem_id = sess_data.locked_problem_id]
             /\ minted' = before.minted \cup {_make_launch_token(sess_data)}
             /\ response' = [Served("lti.launch") EXCEPT
                    !.target = LaunchTarget(role, params.custom_problem_id),
                    !.skew = params.skew]

Launch ==
    /\ \E params \in LaunchParams : launch(params)
    /\ UNCHANGED <<judge, texts, pool>>

\* GET /dev/login/<role>
dev_login(given) ==
    LET before == BeforeRequest(NoToken)
        role == IF given \notin {"instructor", "student"} THEN "student" ELSE given
        dev_user_id == DevUser(role)
        user_role == IF db.users[dev_user_id] = NONE THEN role
                     ELSE db.users[dev_user_id]
    IN  /\ Len(db.lti_sessions) < MaxLaunches
        /\ db' = [db EXCEPT
               !.users[dev_user_id] = user_role,
               !.lti_sessions = Append(@, [user_id |-> dev_user_id,
                                           outcome_service_url |-> FALSE])]
        /\ session' = [before.session EXCEPT
               !.user_id = dev_user_id,
               !.role = user_role,
               !.lti_session_id = Len(db.lti_sessions) + 1]
        /\ minted' = before.minted
        /\ response' = Redirect("lti.dev_login",
               IF role = "instructor" THEN Target("admin.dashboard", 0)
               ELSE Target("student.problem_list", 0))

DevLogin ==
    /\ \E given \in {"instructor", "student", "root"} : dev_login(given)
    /\ UNCHANGED <<judge, texts, pool>>

\* the browser drops the cookie (third-party cookies blocked, or a new window)
ClearCookies ==
    /\ session # NoSession
    /\ session' = NoSession
    /\ UNCHANGED <<db, minted, response>>
    /\ UNCHANGED <<judge, texts, pool>>

\* --------------------------------------------------------- student routes
\* GET /problems
problem_list(token) ==
    LET before == BeforeRequest(token)
        sess == require_lti_session(before.session, token)
    IN  /\ session' = sess
        /\ minted' = before.minted
        /\ UNCHANGED db
        /\ response' =
            IF sess.user_id = NONE
            THEN Forbidden("student.problem_list", "No active LTI session")
            ELSE IF IsSingle(sess)
            THEN Redirect("student.problem_list",
                          Target("student.view_problem", LockedIds(sess)[1]))
            ELSE Served("student.problem_list")

\* GET /problem/<problem_id>
view_problem(token, problem_id) ==
    LET before == BeforeRequest(token)
        sess == require_lti_session(before.session, token)
        locked_ids == LockedIds(sess)
    IN  /\ session' = sess
        /\ minted' = before.minted
        /\ UNCHANGED db
        /\ response' =
            IF sess.user_id = NONE
            THEN Forbidden("student.view_problem", "No active LTI session")
            ELSE IF locked_ids # <<>> /\ ~InSeq(problem_id, locked_ids)
            THEN IF IsSingle(sess)
                 THEN Redirect("student.view_problem",
                               Target("student.view_problem", locked_ids[1]))
                 ELSE Redirect("student.view_problem",
                               Target("student.problem_list", 0))
            ELSE [Served("student.view_problem") EXCEPT
                      !.target = Target("student.view_problem", problem_id)]

\* GET /submissions
my_submissions(token) ==
    LET before == BeforeRequest(token)
        sess == require_lti_session(before.session, token)
    IN  /\ session' = sess
        /\ minted' = before.minted
        /\ UNCHANGED db
        /\ response' =
            IF sess.user_id = NONE
            THEN Forbidden("student.my_submissions", "No active LTI session")
            ELSE IF IsSingle(sess)
            THEN Redirect("student.my_submissions",
                          Target("student.view_problem", LockedIds(sess)[1]))
            ELSE Served("student.my_submissions")

ProblemList ==
    /\ \E token \in Presentable : problem_list(token)
    /\ UNCHANGED <<judge, texts, pool>>

ViewProblem ==
    /\ \E token \in Presentable, problem_id \in ProblemIds :
            view_problem(token, problem_id)
    /\ UNCHANGED <<judge, texts, pool>>

MySubmissions ==
    /\ \E token \in Presentable : my_submissions(token)
    /\ UNCHANGED <<judge, texts, pool>>

\* ------------------------------------------------------------ admin routes
\* lti/auth.py, require_instructor: NONE when the view may run
require_instructor(sess) ==
    IF sess.user_id = NONE THEN "No active LTI session"
    ELSE IF sess.role # "instructor" THEN "Instructor access required"
    ELSE NONE

\* GET /admin/dashboard
dashboard(token) ==
    LET before == BeforeRequest(token)
        sess == require_lti_session(before.session, token)
        denied == require_instructor(sess)
    IN  /\ session' = sess
        /\ minted' = before.minted
        /\ UNCHANGED db
        /\ response' =
            IF denied # NONE THEN Forbidden("admin.dashboard", denied)
            ELSE Served("admin.dashboard")

Dashboard ==
    /\ \E token \in Presentable : dashboard(token)
    /\ UNCHANGED <<judge, texts, pool>>

\* ------------------------------------------------- running submitted code
\* a program: what it prints before echoing its input, how long it runs and
\* what it exits with, the same on every run
Code(stdout, elapsed_ms, returncode) ==
    [stdout |-> stdout, elapsed_ms |-> elapsed_ms, returncode |-> returncode,
     blank |-> FALSE]

Execute(code, input_data) ==
    Exited(code.returncode, code.stdout \o input_data, <<>>, code.elapsed_ms)

\* run_test_case as a function of what the child does, the limit in
\* milliseconds (time_limit_s * 1000)
RunCase(test_case_id, expected_output, limit_ms, b) ==
    LET tc == [id |-> test_case_id, expected_output |-> expected_output]
        actual == _normalize_output(Decode(b.stdout))
        expected == _normalize_output(expected_output)
    IN  IF b.elapsed_ms - StartupMs > limit_ms + GraceMs
        THEN JudgeResult(tc.id, "TLE", <<>>, tc.expected_output, limit_ms,
                         MsgTimeLimit)
        ELSE IF b.elapsed_ms > limit_ms + SlackMs
        THEN JudgeResult(tc.id, "TLE", <<>>, tc.expected_output,
                         b.elapsed_ms, MsgTimeLimit)
        ELSE IF b.returncode # 0
        THEN JudgeResult(tc.id, "RE", Decode(b.stdout), tc.expected_output,
                         b.elapsed_ms, Take(Decode(b.stderr), StderrCap))
        ELSE IF actual = expected
        THEN JudgeResult(tc.id, "AC", actual, expected, b.elapsed_ms, <<>>)
        ELSE JudgeResult(tc.id, "WA", actual, expected, b.elapsed_ms, <<>>)

\* judge_submission of a python program in a writable temporary directory
JudgeLimitMs(limit_ms) == Max({MinLimitS, limit_ms \div MsPerS}) * MsPerS

\* the verdict run_test_case gives each row: it depends on the row only
RowVerdicts(code, rows, limit_ms) ==
    {[test_case_id |-> r.id,
      verdict |-> RunCase(r.id, r.expected_output, JudgeLimitMs(limit_ms),
                          Execute(code, r.input_data)).verdict] : r \in rows}

Judged(cases, row_verdicts) ==
    LET rs == [k \in 1..Len(cases) |->
                 CHOOSE v \in row_verdicts : v.test_case_id = cases[k].id]
        bad == {k \in 1..Len(rs) : rs[k].verdict # "AC"}
        count == Cardinality({k \in 1..Len(rs) : PassedAfter(0, rs[k].verdict) = 1})
    IN  [verdict |-> IF bad = {} THEN "AC"
                     ELSE rs[CHOOSE k \in bad : \A j \in bad : k <= j].verdict,
         score |-> Score(count, Len(cases)),
         results |-> rs,
         error |-> <<>>]

\* TestCase.query.filter_by(problem_id=...).order_by(TestCase.order).all():
\* the rows in nondecreasing order; rows of equal order come in any order
RowsOf(problem_id) == {r \in db.test_cases : r.problem_id = problem_id}

OrderedRows(problem_id) ==
    LET rows == RowsOf(problem_id)
        n == Cardinality(rows)
    IN  {s \in [1..n -> rows] :
            /\ \A a, b \in 1..n : a # b => s[a] # s[b]
            /\ \A a, b \in 1..n : a < b => s[a].order <= s[b].order}

\* mutant of HasAC: only the submission just stored counts
HasACLatest(user_id, problem_id, submissions) ==
    LET k == Len(submissions)
    IN  /\ submissions[k].user_id = user_id
        /\ submissions[k].problem_id = problem_id
        /\ submissions[k].verdict = "AC"

HasAC(user_id, problem_id, submissions) ==
    \E k \in 1..Len(submissions) :
        /\ submissions[k].user_id = user_id
        /\ submissions[k].problem_id = problem_id
        /\ submissions[k].verdict = "AC"

\* the grade submit_code hands to send_grade, NoGrade when it sends none
GradeSent(sess, problem_id, submissions) ==
    LET locked_ids == LockedIds(sess)
        lti_sess == db.lti_sessions[sess.lti_session_id]
        solved == Cardinality({k \in 1..Len(locked_ids) :
                      HasAC(sess.user_id, locked_ids[k], submissions)})
    IN  IF sess.lti_session_id = 0 THEN NoGrade
        ELSE IF sess.lti_session_id > Len(db.lti_sessions) THEN NoGrade
        ELSE IF ~lti_sess.outcome_service_url THEN NoGrade
        ELSE IF Len(locked_ids) > 1
        THEN [num |-> solved, den |-> Len(locked_ids)]
        ELSE IF HasAC(sess.user_id, problem_id, submissions)
        THEN [num |-> 1, den |-> 1]
        ELSE [num |-> 0, den |-> 1]

\* POST /problem/<problem_id>/submit
submit_code(token, problem_id, code, language_) ==
    LET before == BeforeRequest(token)
        sess == require_lti_session(before.session, token)
    IN  /\ session' = sess
        /\ minted' = before.minted
        /\ IF sess.user_id = NONE
           THEN /\ response' = Forbidden("student.submit_code",
                                         "No active LTI session")
                /\ UNCHANGED db
           ELSE IF code.blank
           THEN /\ response' = Redirect("student.submit_code",
                                   Target("student.view_problem", problem_id))
                /\ UNCHANGED db
           ELSE IF language_ \notin {"python", "c", "cpp"}
           THEN /\ response' = Redirect("student.submit_code",
                                   Target("student.view_problem", problem_id))
                /\ UNCHANGED db
           ELSE IF RowsOf(problem_id) = {}
           THEN /\ response' = Redirect("student.submit_code",
                                   Target("student.view_problem", problem_id))
                /\ UNCHANGED db
           ELSE /\ Len(db.submissions) < MaxSubs
                /\ LET row_verdicts == RowVerdicts(code, RowsOf(problem_id),
                                                   db.time_limit_ms)
                   IN  \E ordered \in OrderedRows(problem_id) :
                         LET result == Judged(ordered, row_verdicts)
                             submissions == Append(db.submissions,
                                 [user_id |-> sess.user_id,
                                  problem_id |-> problem_id,
                                  verdict |-> result.verdict])
                         IN  /\ db' = [db EXCEPT !.submissions = submissions]
                             /\ response' =
                                  [Redirect("student.submit_code",
                                            Target("student.view_result",
                                                   Len(submissions))) EXCEPT
                                      !.grade = GradeSent(sess, problem_id,
                                                          submissions),
                                      !.results = result.results]

\* ------------------------------------------------------ test case routes
Row(id, problem_id, input_data, expected_output, order, generated) ==
    [id |-> id, problem_id |-> problem_id, input_data |-> input_data,
     expected_output |-> expected_output, order |-> order,
     generated |-> generated]     \* generated: history, the route that saved it

\* TestCase.query.filter_by(problem_id=problem.id).count()
Count_(problem_id) == Cardinality(RowsOf(problem_id))

\* POST /admin/problem/<problem_id>/testcase
add_test_case(token, problem_id, input_data, expected_output) ==
    LET before == BeforeRequest(token)
        sess == require_lti_session(before.session, token)
        denied == require_instructor(sess)
    IN  /\ session' = sess
        /\ minted' = before.minted
        /\ IF denied # NONE
           THEN /\ response' = Forbidden("admin.add_test_case", denied)
                /\ UNCHANGED db
           ELSE /\ db.next_id <= MaxRows
                /\ db' = [db EXCEPT
                       !.test_cases = @ \cup {Row(db.next_id, problem_id,
                           input_data, expected_output, Count_(problem_id), FALSE)},
                       !.next_id = @ + 1]
                /\ response' = Redirect("admin.add_test_case",
                                        Target("admin.edit_problem", problem_id))

\* POST /admin/problem/<problem_id>/testcase/<tc_id>/delete
delete_test_case(token, problem_id, tc_id) ==
    LET before == BeforeRequest(token)
        sess == require_lti_session(before.session, token)
        denied == require_instructor(sess)
        found == {r \in db.test_cases : r.id = tc_id}
    IN  /\ session' = sess
        /\ minted' = before.minted
        /\ IF denied # NONE
           THEN /\ response' = Forbidden("admin.delete_test_case", denied)
                /\ UNCHANGED db
           ELSE IF found = {}
           THEN /\ response' = [NoResponse EXCEPT
                                   !.route = "admin.delete_test_case",
                                   !.status = 404]
                /\ UNCHANGED db
           ELSE IF \E r \in found : r.problem_id # problem_id
           THEN /\ response' = Redirect("admin.delete_test_case",
                                        Target("admin.edit_problem", problem_id))
                /\ UNCHANGED db
           ELSE /\ db' = [db EXCEPT !.test_cases = @ \ found]
                /\ response' = Redirect("admin.delete_test_case",
                                        Target("admin.edit_problem", problem_id))

\* bulk_input.split('\n\n')
RECURSIVE SplitBlank(_)
SplitBlank(t) ==
    LET hits == {k \in 1..(Len(t) - 1) : t[k] = LF /\ t[k + 1] = LF}
        first == CHOOSE k \in hits : \A j \in hits : k <= j
    IN  IF hits = {} THEN <<t>>
        ELSE <<SubSeq(t, 1, first - 1)>> \o SplitBlank(SubSeq(t, first + 2, Len(t)))

\* p.strip()
Strip(p) ==
    LET r == RStrip(p)
        n == Len(r)
        from == CHOOSE c \in 1..(n + 1) :
                  /\ c = n + 1 \/ r[c] \notin Whitespace
                  /\ \A j \in 1..(c - 1) : r[j] \in Whitespace
    IN  SubSeq(r, from, n)

\* inputs = [p.strip() for p in raw_parts if p.strip()]
InputsOf(bulk_input) ==
    LET raw_parts == SplitBlank(ReplaceCRLF(bulk_input))
        stripped == [k \in 1..Len(raw_parts) |-> Strip(raw_parts[k])]
    IN  SelectSeq(stripped, LAMBDA p : p # <<>>)

\* the rows generate_batch adds for inputs[from..], `added` rows added so far
RECURSIVE Generated(_, _, _, _, _, _)
Generated(inputs_, from, added, current_order, problem_id, next_id) ==
    IF from > Len(inputs_) THEN {}
    ELSE LET result == RunCase(from - 1, <<>>, db.time_limit_ms,
                               Execute(db.solution, inputs_[from]))
         IN  IF result.verdict \in {"RE", "TLE"}
             THEN Generated(inputs_, from + 1, added, current_order, problem_id,
                            next_id)
             ELSE {Row(next_id + added, problem_id, inputs_[from],
                       result.actual_output, current_order + added, TRUE)}
                  \cup Generated(inputs_, from + 1, added + 1, current_order,
                                 problem_id, next_id)

\* POST /admin/problem/<problem_id>/generate-batch
generate_batch(token, problem_id, bulk_input) ==
    LET before == BeforeRequest(token)
        sess == require_lti_session(before.session, token)
        denied == require_instructor(sess)
        inputs_ == InputsOf(bulk_input)
        rows == Generated(inputs_, 1, 0, Count_(problem_id), problem_id,
                          db.next_id)
    IN  /\ session' = sess
        /\ minted' = before.minted
        /\ IF denied # NONE
           THEN /\ response' = Forbidden("admin.generate_batch", denied)
                /\ UNCHANGED db
           ELSE IF db.solution.blank
           THEN /\ response' = [NoResponse EXCEPT
                                   !.route = "admin.generate_batch",
                                   !.status = 400,
                                   !.error = "No solution code set"]
                /\ UNCHANGED db
           ELSE IF inputs_ = <<>>
           THEN /\ response' = [NoResponse EXCEPT
                                   !.route = "admin.generate_batch",
                                   !.status = 400,
                                   !.error = "No test case inputs provided"]
                /\ UNCHANGED db
           ELSE /\ db.next_id + Len(inputs_) - 1 <= MaxRows
                /\ db' = [db EXCEPT
                       !.test_cases = @ \cup rows,
                       !.next_id = @ + Cardinality(rows)]
                /\ response' = Served("admin.generate_batch")

\* ------------------------------------------------- sessions and navigation
\* two problems with one test case each, as an instructor has set them up
SeededCases ==
    {Row(1, 1, <<"1">>, <<"a", "1">>, 0, FALSE),
     Row(2, 2, <<"1">>, <<"a", "1">>, 0, FALSE)}

AppCodes == {NoCode, Code(<<"a">>, 10, 0), Code(<<"b">>, 10, 0)}

AppInit ==
    /\ NotJudging
    /\ NoTexts
    /\ NoRequests
    /\ db = [EmptyDb EXCEPT !.test_cases = SeededCases,
                            !.next_id = Cardinality(SeededCases) + 1]
    /\ session = NoSession
    /\ minted = {}
    /\ response = NoResponse

SubmitCode ==
    /\ \E token \in Presentable, problem_id \in ProblemIds, code \in AppCodes,
          language_ \in {"python", "java"} :
            submit_code(token, problem_id, code, language_)
    /\ UNCHANGED <<judge, texts, pool>>

AppNext ==
    \/ Launch
    \/ DevLogin
    \/ ClearCookies
    \/ ProblemList
    \/ ViewProblem
    \/ MySubmissions
    \/ Dashboard
    \/ SubmitCode

AppSpec == AppInit /\ [][AppNext]_vars

\* ------------------------------------------------ test cases of a problem
\* the state after GET /dev/login/instructor, the solution and the limit as
\* edit_problem stored them
\* problem 1: its time limit and the solution stored with it
Problem(time_limit_ms_, solution) ==
    [time_limit_ms |-> time_limit_ms_, solution |-> solution]

CaseProblems ==
    {Problem(1000, NoCode),
     Problem(1000, Code(<<"a">>, 10, 0)),
     Problem(1000, Code(<<"a">>, 10, 1)),
     Problem(1000, Code(<<"a">>, 1800, 0)),
     Problem(1500, Code(<<"a">>, 1800, 0)),
     Problem(1000, Code(Rep("a", ActualCap - 1), 10, 0)),
     Problem(1000, Code(Rep("a", ActualCap), 10, 0))}

BulkInputs ==
    {<<"1">>, <<LF, LF>>, <<SP, "2", CR, LF, CR, LF, "1", LF>>}

CaseInit ==
    /\ NotJudging
    /\ NoTexts
    /\ NoRequests
    /\ \E problem \in CaseProblems :
          db = [EmptyDb EXCEPT
                   !.solution = problem.solution,
                   !.time_limit_ms = problem.time_limit_ms,
                   !.users[DevUser("instructor")] = "instructor",
                   !.lti_sessions = <<[user_id |-> DevUser("instructor"),
                                       outcome_service_url |-> FALSE]>>]
    /\ session = [NoSession EXCEPT !.user_id = DevUser("instructor"),
                                   !.role = "instructor",
                                   !.lti_session_id = 1]
    /\ minted = {}
    /\ response = Redirect("lti.dev_login", Target("admin.dashboard", 0))

\* the requests go to problem 1, the one db.solution and db.time_limit_ms
\* belong to; delete_test_case is also asked for its rows under problem 2
AddTestCase ==
    /\ \E expected_output \in {<<"a", "1">>, <<"b">>} :
            add_test_case(NoToken, 1, <<"1">>, expected_output)
    /\ UNCHANGED <<judge, texts, pool>>

DeleteTestCase ==
    /\ \E problem_id \in ProblemIds, tc_id \in 1..MaxRows :
            delete_test_case(NoToken, problem_id, tc_id)
    /\ UNCHANGED <<judge, texts, pool>>

GenerateBatch ==
    /\ \E bulk_input \in BulkInputs : generate_batch(NoToken, 1, bulk_input)
    /\ UNCHANGED <<judge, texts, pool>>

SubmitSolution ==
    /\ submit_code(NoToken, 1, db.solution, "python")
    /\ UNCHANGED <<judge, texts, pool>>

CaseNext ==
    \/ AddTestCase
    \/ DeleteTestCase
    \/ GenerateBatch
    \/ SubmitSolution

CaseSpec == CaseInit /\ [][CaseNext]_vars

\* ----------------------------------------------------------------- claims
Verdicts(rs) == [k \in 1..Len(rs) |-> rs[k].verdict]

AllAC(rs) == \A k \in 1..Len(rs) : rs[k].verdict = "AC"

FirstNonAC(rs) ==
    CHOOSE k \in 1..Len(rs) :
        /\ rs[k].verdict # "AC"
        /\ \A j \in 1..(k - 1) : rs[j].verdict = "AC"

Has(ev, tc) == \E k \in 1..Len(trace) : trace[k].ev = ev /\ trace[k].tc = tc

\* C1: after a successful compile the overall verdict is AC iff every result
\* is AC, and otherwise the verdict of the first result that is not AC, at
\* every point of the loop and in the report returned.
C1_FirstNonAcWins ==
    success =>
        /\ overall_verdict = IF AllAC(results) THEN "AC"
                             ELSE results[FirstNonAC(results)].verdict
        /\ pc = "RETURNED" =>
              /\ report.verdict = "AC" <=> AllAC(report.results)
              /\ ~AllAC(report.results) =>
                    report.verdict =
                        report.results[FirstNonAC(report.results)].verdict

C1_Witness ==
    /\ pc = "RETURNED"
    /\ success
    /\ Verdicts(report.results) = <<"AC", "WA", "TLE">>
    /\ report.verdict = "WA"

\* C2: after a successful compile over N test cases the score of the report
\* is (number of AC results) / N for N > 0 and 0 for N = 0, and it lies
\* between 0 and 1.
C2_ScoreIsAcOverN ==
    (pc = "RETURNED" /\ success) =>
        LET n == Len(test_cases)
            ac == Cardinality({k \in 1..Len(report.results) :
                                    report.results[k].verdict = "AC"})
            score == report.score
        IN  /\ score.den > 0
            /\ 0 <= score.num /\ score.num <= score.den
            /\ n > 0 => score.num * n = ac * score.den
            /\ n = 0 => score.num = 0

C2_Witness ==
    /\ pc = "RETURNED"
    /\ success
    /\ Verdicts(report.results) = <<"AC", "RE", "AC">>
    /\ report.score = [num |-> 2, den |-> 3]

\* C3: when compile_code reports failure the report is CE with score 0, no
\* results and the compile error, and between compile_code and the release
\* nothing is run: no child is spawned, no result produced.
C3_CompileFailureStops ==
    (pc \in {"CE", "RETURNED"} /\ ~success) =>
        /\ report = [verdict |-> "CE", score |-> [num |-> 0, den |-> 1],
                     results |-> <<>>, error |-> error]
        /\ \A k \in 1..Len(trace) :
              trace[k].ev \in {"mkdtemp", "compile_code", "compiler", "rmtree"}
        /\ results = <<>>

C3_Witness ==
    /\ pc = "RETURNED"
    /\ ~success
    /\ error = MsgCompileTimeout
    /\ Len(test_cases) = MaxCases
    /\ report.verdict = "CE"

\* C4: after a successful compile every test case is run whatever the
\* earlier verdicts were: the results follow the test cases one to one, in
\* order, each with its test case's id, the loop is always at the case after
\* the last result, and the report holds a result for every case.
C4_EveryCaseRuns ==
    success =>
        /\ Len(results) <= Len(test_cases)
        /\ \A k \in 1..Len(results) : results[k].test_case_id = test_cases[k].id
        /\ i = Len(results) + 1
        /\ \A k \in 1..Len(results) : Has("result", k)
        /\ pc \in {"AGGREGATED", "RETURNED"} =>
              /\ Len(report.results) = Len(test_cases)
              /\ \A k \in 1..Len(test_cases) :
                    report.results[k].test_case_id = test_cases[k].id

C4_Witness ==
    /\ pc = "RETURNED"
    /\ success
    /\ Verdicts(report.results) = <<"WA", "TLE", "RE">>
    /\ \A k \in 1..3 : report.results[k].test_case_id = CaseId(k)

\* the workspace is released on every way out of judge_submission, as the
\* last thing before control goes back to the caller
ReleaseOnEveryExitPath ==
    pc \in {"RETURNED", "RAISED"} =>
        /\ workspace \in {"removed", "left"}
        /\ trace[Len(trace)] = Event("rmtree", 0)

\* C5: every workspace acquired is released on every exit path (CE return,
\* aggregated return, exception from compile_code or a run), the release is
\* the last step before control returns, and it comes after the last use of
\* the workspace by a child process: no process this invocation started is
\* still running when the directory is removed.
C5_ReleasedAfterLastChildUse ==
    pc \in {"RETURNED", "RAISED"} =>
        /\ workspace \in {"removed", "left"}
        /\ trace[Len(trace)] = Event("rmtree", 0)
        /\ alive = {}

\* run_test_case has just returned the result of case Len(results); every
\* result is looked at here, in the state right after it was recorded
JustReturned == pc = "RUNNING" /\ runpc = "idle" /\ Len(results) > 0

InTime(b) ==
    /\ b.kind = "exit"
    /\ b.elapsed_ms <= time_limit_s * MsPerS + SlackMs

\* C6: a child that has not completed when the effective timeout expires
\* gets the process-tree kill before its result is returned, and the result
\* is TLE with time_ms = nominal limit * 1000 (not the effective timeout).
C6_TimeoutKillsThenTLE ==
    JustReturned =>
        LET k == Len(results)
        IN  children[k].kind = "hang" =>
                /\ results[k].verdict = "TLE"
                /\ results[k].time_ms = time_limit_s * MsPerS
                /\ Len(trace) >= 2
                /\ trace[Len(trace) - 1] = Event("kill_tree", k)
                /\ trace[Len(trace)] = Event("result", k)

C6_Witness ==
    /\ JustReturned
    /\ Len(results) = 2
    /\ children[2].kind = "hang"
    /\ results[2].verdict = "TLE"
    /\ time_limit_s = 2
    /\ results[2].time_ms = 2000

\* C7: a child that completes within the effective timeout with a measured
\* wall time above nominal limit * 1000 + 500 is TLE, whatever its exit code
\* and its output.
C7_SlackBeatsExitAndOutput ==
    JustReturned =>
        LET k == Len(results)
        IN  (children[k].kind = "exit" /\
             children[k].elapsed_ms > time_limit_s * MsPerS + SlackMs) =>
                results[k].verdict = "TLE"

C7_Witness ==
    /\ JustReturned
    /\ LET k == Len(results)
       IN  /\ children[k].kind = "exit"
           /\ children[k].elapsed_ms = time_limit_s * MsPerS + SlackMs + 1
           /\ children[k].returncode = 0
           /\ _normalize_output(Decode(children[k].stdout)) =
                  _normalize_output(test_cases[k].expected_output)
           /\ results[k].verdict = "TLE"

\* C8: a child that completes within the time bounds with a non-zero exit
\* code is RE, even when its output is the expected one; the result's error
\* is the decoded error stream cut to 500 characters and its actual_output
\* the decoded output stream, as written (not normalised), in the 500
\* characters a JudgeResult keeps.
C8_NonZeroExitIsRE ==
    JustReturned =>
        LET k == Len(results)
        IN  (InTime(children[k]) /\ children[k].returncode # 0) =>
                /\ results[k].verdict = "RE"
                /\ results[k].error = Take(Decode(children[k].stderr), StderrCap)
                /\ Len(results[k].error) <= StderrCap
                /\ results[k].actual_output =
                       Take(Decode(children[k].stdout), ActualCap)

C8_Witness ==
    /\ JustReturned
    /\ LET k == Len(results)
       IN  /\ InTime(children[k])
           /\ children[k].returncode # 0
           /\ Decode(children[k].stdout) = test_cases[k].expected_output
           /\ Len(children[k].stderr) > StderrCap
           /\ results[k].verdict = "RE"
           /\ Len(results[k].error) = StderrCap

\* C9: a child that completes within the time bounds with exit code zero is
\* AC iff normalize(actual output) = normalize(expected output), WA
\* otherwise, and nothing else.
C9_ExitZeroIsAcOrWa ==
    JustReturned =>
        LET k == Len(results)
        IN  (InTime(children[k]) /\ children[k].returncode = 0) =>
                /\ results[k].verdict \in {"AC", "WA"}
                /\ results[k].verdict = "AC" <=>
                       _normalize_output(Decode(children[k].stdout)) =
                           _normalize_output(test_cases[k].expected_output)

C9_Witness ==
    /\ JustReturned
    /\ Len(results) = 1
    /\ InTime(children[1])
    /\ children[1].returncode = 0
    /\ children[1].stdout = <<"a", SP, CR, LF, LF>>
    /\ test_cases[1].expected_output = <<"a", SP, LF>>
    /\ results[1].verdict = "AC"

\* C10: run_test_case never raises to its caller: once the compile has
\* succeeded no exception leaves judge_submission's loop, and every failure
\* to resolve the run command, to spawn the child or to collect its output
\* is a result RE with an error of at most 500 characters.
C10_RunTestCaseNeverRaises ==
    /\ success => pc \notin {"FAILED", "RAISED"}
    /\ JustReturned =>
          LET k == Len(results)
          IN  children[k].kind \in {"nospawn", "oom"} =>
                  /\ results[k].verdict = "RE"
                  /\ Len(results[k].error) <= ErrorCap

\* C11: for a language identifier the registry does not hold,
\* judge_submission does not raise: it returns the report CE with score 0 and
\* no results, and neither a compiler nor a run process is spawned.
C11_UnknownLanguageIsCE ==
    language \notin DOMAIN SUPPORTED_LANGUAGES =>
        /\ pc \in {"PENDING", "COMPILING", "CE", "RETURNED"}
        /\ exception = NoException
        /\ \A k \in 1..Len(trace) : trace[k].ev \notin {"compiler", "Popen"}
        /\ alive = {}
        /\ pc \in {"CE", "RETURNED"} =>
              /\ report.verdict = "CE"
              /\ report.score = [num |-> 0, den |-> 1]
              /\ report.results = <<>>

C11_Witness ==
    /\ language = "java"
    /\ pc = "RETURNED"
    /\ Len(test_cases) = MaxCases
    /\ report.verdict = "CE"
    /\ report.error = MsgUnsupportedColon \o LanguageName("java")
    /\ Has("compile_code", 0)

\* C12: with an unsupported language the CE outcome is decided before any
\* workspace is created: no workspace directory is acquired at any point of
\* the invocation.
C12_NoWorkspaceForUnknownLanguage ==
    language \notin DOMAIN SUPPORTED_LANGUAGES =>
        /\ workspace = "none"
        /\ ~Has("mkdtemp", 0)

\* C13: a submission that compiles and has no test case gets the report
\* AC with score 0 and an empty results list, and nothing is run for it.
C13_NoCasesIsAcZero ==
    (success /\ Len(test_cases) = 0) =>
        /\ pc \in {"RUNNING", "AGGREGATED", "RETURNED"}
        /\ ~\E k \in 1..Len(trace) : trace[k].ev = "Popen"
        /\ pc \in {"AGGREGATED", "RETURNED"} =>
              report = [verdict |-> "AC", score |-> [num |-> 0, den |-> 1],
                        results |-> <<>>, error |-> <<>>]

C13_Witness ==
    /\ pc = "RETURNED"
    /\ success
    /\ test_cases = <<>>
    /\ language = "cpp"
    /\ report.verdict = "AC"
    /\ report.score.num = 0

\* C14: whenever compilation fails (non-zero compiler exit, compile timeout,
\* launch failure or unsupported language) the compile error of the report
\* is not empty.
C14_CompileErrorNonEmpty ==
    (pc \in {"CE", "RETURNED"} /\ ~success) => report.error # <<>>

\* C15: _normalize_output is idempotent: normalising a normal form gives it
\* back, for every text.
C15_NormalizeIdempotent ==
    edit = "again" => variant_form = normal_form

C15_Witness ==
    /\ edit = "again"
    /\ input_text = <<"a", SP, LF, LF>>
    /\ normal_form = <<"a">>
    /\ variant = <<"a">>
    /\ variant_form = <<"a">>

IsBlank(line) == \A j \in 1..Len(line) : line[j] \in Whitespace

\* the number of whitespace characters a line that is not blank starts with
LeadLen(line) ==
    CHOOSE c \in 0..(Len(line) - 1) :
        /\ \A j \in 1..c : line[j] \in Whitespace
        /\ line[c + 1] \notin Whitespace

\* the lines of n are the lines of t up to its last line that is not blank,
\* one for one: blank where t's line is blank, and starting with the same
\* whitespace where it is not
Preserved(t, n) ==
    LET L == SplitLF(ReplaceCRLF(t))
        M == IF n = <<>> THEN <<>> ELSE SplitLF(n)
    IN  /\ Len(M) <= Len(L)
        /\ \A k \in 1..Len(M) :
              /\ M[k] = <<>> <=> IsBlank(L[k])
              /\ ~IsBlank(L[k]) =>
                    /\ LeadLen(M[k]) = LeadLen(L[k])
                    /\ SubSeq(M[k], 1, LeadLen(M[k])) =
                           SubSeq(L[k], 1, LeadLen(L[k]))
        /\ \A k \in (Len(M) + 1)..Len(L) : IsBlank(L[k])
        /\ Len(M) > 0 => ~IsBlank(L[Len(M)])

\* C16: appending spaces or tabs to the end of any line of a text, or blank
\* (empty or whitespace-only) lines to its end, leaves its normal form
\* unchanged, while the whitespace a line starts with and the blank lines
\* before the last line that is not blank are kept.
C16_TrailingBlanksDoNotCount ==
    /\ edit \in {"pad", "blank"} => variant_form = normal_form
    /\ edit # "none" => Preserved(input_text, normal_form)

C16_Witness ==
    /\ edit = "pad"
    /\ input_text = <<SP, LF, LF, "a">>
    /\ variant = <<SP, LF, SP, TAB, LF, "a">>
    /\ normal_form = <<LF, LF, "a">>
    /\ variant_form = <<LF, LF, "a">>

\* C17 as amended: LF and CR LF are the same line ending: writing every LF
\* of a text as CR LF, or every CR LF as LF, leaves its normal form
\* unchanged.
C17_LfAndCrLfAgree ==
    edit \in {"crlf", "lf"} => variant_form = normal_form

C17_Witness ==
    /\ edit = "crlf"
    /\ input_text = <<"a", LF, "a">>
    /\ variant = <<"a", CR, LF, "a">>
    /\ variant_form = <<"a", LF, "a">>

\* C17: line endings are unified to a single convention: two texts that
\* differ only in the line-ending convention that separates the same lines
\* (LF, CR LF or CR) have the same normal form.
C17_AnyLineEndingAgrees ==
    edit \in {"crlf", "lf", "cr"} => variant_form = normal_form

\* C18: when run_test_case returns TLE for a child that did not finish
\* within the effective timeout, the child and every process it spawned are
\* terminated: nothing of the child's tree is alive when the result is
\* returned, also when the group kill fails and the direct child is killed.
C18_NoOrphansAfterTimeout ==
    JustReturned =>
        LET k == Len(results)
        IN  children[k].kind = "hang" =>
                /\ results[k].verdict = "TLE"
                /\ Process("child", k) \notin alive
                /\ Process("descendant", k) \notin alive

\* C19: when the compile command does not finish within the compile
\* timeout, compile_code returns the failure 'Compilation timed out' and, by
\* the time it returns, the shell and the compiler it launched have been
\* terminated.
C19_CompileTimeoutLeavesNothing ==
    (pc = "CE" /\ Has("compiler", 0)) =>
        /\ ~success
        /\ error = MsgCompileTimeout => Process("compiler", 0) \notin alive

\* C20: within one invocation compile_code is called exactly once, before
\* any test case runs, every run command is built from the one artifact
\* path it returned, and that path is never replaced between test cases.
C20_OneArtifactForAllCases ==
    /\ Cardinality({k \in 1..Len(trace) : trace[k].ev = "compile_code"}) =
           IF pc \in {"PENDING", "COMPILING"} THEN 0 ELSE 1
    /\ \A k \in 1..Len(trace) :
           trace[k].ev \in {"Popen", "kill_tree", "result"} =>
               \E j \in 1..(k - 1) : trace[j].ev = "compile_code"
    /\ \A k \in 1..Len(artifacts) : artifacts[k] = executable_path
    /\ Len(artifacts) \in {Len(results), Len(results) + 1}
    /\ (success /\ pc \in {"AGGREGATED", "RETURNED"}) =>
           Len(artifacts) = Len(test_cases)

C20_Witness ==
    /\ pc = "RETURNED"
    /\ language = "cpp"
    /\ platform = "linux"
    /\ Len(test_cases) = MaxCases
    /\ Verdicts(report.results) = <<"AC", "TLE", "WA">>
    /\ artifacts = [k \in 1..MaxCases |-> [dir |-> "plain", file |-> "solution"]]

\* the runs under way: the cases whose child was started and whose result
\* has not been produced yet
InProgress ==
    {k \in 1..Len(test_cases) :
        /\ Has("Popen", k)
        /\ ~Has("result", k)}

\* C21: the test cases of one invocation run strictly one after the other:
\* the child of case k + 1 is not spawned before the result of case k has
\* been produced, and at most one run is under way at any time.
C21_OneRunAtATime ==
    LET under_way == InProgress
    IN  /\ Cardinality(under_way) <= 1
        /\ runpc # "idle" <=> under_way = {i}
        /\ \A k \in 1..Len(trace) :
              (trace[k].ev = "Popen" /\ trace[k].tc > 1) =>
                  \E j \in 1..(k - 1) :
                      trace[j].ev = "result" /\ trace[j].tc = trace[k].tc - 1

C21_Witness ==
    /\ runpc = "communicate"
    /\ InProgress = {3}
    /\ Verdicts(results) = <<"TLE", "AC">>
    /\ trace[Len(trace)] = Event("Popen", 3)
    /\ trace[Len(trace) - 1] = Event("result", 2)

\* C22: every invocation over a finite list of test cases eventually hands
\* control back to its caller, whatever the compiler and the children do:
\* each blocking step is bounded by a timeout, so until it has returned the
\* judge always has a step of its own to take and never waits for a step
\* that only a compiler or a child can make. (Every run is finite: each step
\* moves pc or the loop forward.)
C22_NeverWaitsUnbounded ==
    pc \notin {"RETURNED", "RAISED"} => ENABLED JudgeStep

Holding(w) ==
    worker[w].pc \in {"COMPILING", "RUNNING", "CE", "AGGREGATED", "FAILED"}

\* C23: under any interleaving of requests handled at the same time
\* (judging and output generation) no two of them hold the same workspace
\* directory, and the release of one never removes the source file or the
\* artifact of another that is still running.
C23_WorkspacesDisjoint ==
    /\ \A v, w \in Workers :
          (v # w /\ Holding(v) /\ Holding(w)) => worker[v].dir # worker[w].dir
    /\ \A w \in Workers :
          /\ Holding(w) => fs[worker[w].dir].exists
          /\ worker[w].pc = "RUNNING" =>
                /\ File("source", w) \in fs[worker[w].dir].files
                /\ worker[w].compiled =>
                      File("artifact", w) \in fs[worker[w].dir].files
          /\ ~worker[w].lost

\* two judge invocations at once, in directories of the same prefix, after
\* an earlier request was released and its directory left behind: one has
\* compiled and is about to run, the other is about to compile
C23_Witness ==
    /\ worker[1].pc = "RUNNING"
    /\ worker[1].compiled
    /\ worker[1].dir = [prefix |-> "judge_", suffix |-> 1]
    /\ worker[2].pc = "COMPILING"
    /\ worker[2].dir = [prefix |-> "judge_", suffix |-> 2]
    /\ LeftBehind = {[prefix |-> "gen_", suffix |-> 1]}
    /\ fs[worker[1].dir].files = {File("source", 1), File("artifact", 1)}

\* what the body of judge_submission has decided when it reaches the
\* finally block: the report it returns, from its own locals
Decided ==
    IF success
    THEN [verdict |-> overall_verdict,
          score |-> Score(passed, Len(test_cases)),
          results |-> results,
          error |-> <<>>]
    ELSE [verdict |-> "CE", score |-> [num |-> 0, den |-> 1],
          results |-> <<>>, error |-> error]

\* C24: releasing the workspace never raises and never masks the result:
\* whether the directory was removed or stayed behind, a returning
\* invocation returns exactly the report its body decided and no exception,
\* and a raising invocation propagates exactly the exception of its body
\* (from writing the source or from splitting the command) and no report.
C24_ReleaseKeepsResult ==
    /\ pc = "RETURNED" =>
          /\ workspace \in {"removed", "left"}
          /\ exception = NoException
          /\ report = Decided
    /\ pc = "RAISED" =>
          /\ workspace \in {"removed", "left"}
          /\ report = NoReport
          /\ exception.type \in {"OSError", "ValueError"}
          /\ exception.type = "ValueError" <=> success

\* the directory could not be removed, and the caller still gets the report
\* of two judged cases
C24_Witness ==
    /\ pc = "RETURNED"
    /\ workspace = "left"
    /\ report.verdict = "WA"
    /\ Verdicts(report.results) = <<"AC", "WA">>
    /\ report.score = [num |-> 1, den |-> 2]

\* C25: on every failure path of compile_code (non-zero exit, timeout,
\* launch exception, unsupported language) the error text, and with it the
\* compile error of the report, has at most 1000 characters.
C25_CompileErrorBounded ==
    (pc \in {"CE", "RETURNED"} /\ ~success) =>
        /\ Len(error) <= CompileErrCap
        /\ Len(report.error) <= CompileErrCap

\* C26: every JudgeResult, on every verdict path of run_test_case, has an
\* actual output, an expected output and an error text of at most 500
\* characters each, in the list being built and in the report.
C26_ResultTextsBounded ==
    \A rs \in {results, report.results} :
        \A k \in 1..Len(rs) :
            /\ Len(rs[k].actual_output) <= ActualCap
            /\ Len(rs[k].expected_output) <= ExpectedCap
            /\ Len(rs[k].error) <= ErrorCap

\* a child that exits non-zero after writing more than the caps to both
\* streams, on a case that expects more than the cap: all three fields are
\* cut to the cap
C26_Witness ==
    /\ JustReturned
    /\ results[1].verdict = "RE"
    /\ Len(children[1].stdout) > ActualCap
    /\ Len(children[1].stderr) > ErrorCap
    /\ Len(test_cases[1].expected_output) > ExpectedCap
    /\ Len(results[1].actual_output) = ActualCap
    /\ Len(results[1].expected_output) = ExpectedCap
    /\ Len(results[1].error) = ErrorCap

RunVerdicts == {"AC", "WA", "TLE", "RE"}

\* one step of an invocation along the state machine; the wait for a
\* compiler that outlives its timeout belongs to COMPILING, and a step may
\* leave the machine by an exception (FAILED), which hands back no report
MachineStep ==
    /\ pc = "PENDING" => pc' = "COMPILING"
    /\ pc = "COMPILING" => pc' \in {"DRAINING", "CE", "RUNNING", "FAILED"}
    /\ pc = "DRAINING" => pc' = "CE"
    /\ pc = "RUNNING" => pc' \in {"RUNNING", "AGGREGATED", "FAILED"}
    /\ pc \in {"CE", "AGGREGATED"} =>
          /\ pc' = "RETURNED"
          /\ report' = report
          /\ results' = results
          /\ trace' = Append(trace, Event("rmtree", 0))
    /\ pc \in {"RETURNED", "RAISED"} => pc' = pc
    /\ pc' = "RUNNING" => success' /\ Has("compile_code", 0)'
    /\ pc' = "CE" => ~success' /\ results' = <<>> /\ report'.verdict = "CE"
    /\ (report' # NoReport /\ report'.verdict # "CE") =>
          /\ report'.verdict \in RunVerdicts
          /\ \A k \in 1..Len(report'.results) :
                report'.results[k].verdict \in RunVerdicts
    /\ \A k \in 1..Len(results') : results'[k].verdict \in RunVerdicts

\* C27: an invocation follows PENDING -> COMPILING -> (CE | RUNNING ->
\* AGGREGATED): RUNNING is entered only after a successful compile, after CE
\* nothing happens but the release of the workspace, and in every report
\* whose overall verdict is not CE the overall verdict and every per-test
\* verdict is one of AC, WA, TLE, RE.
C27_FollowsStateMachine == [][MachineStep]_vars

\* an aggregated report over three cases that ended in three different
\* ways, none of them CE
C27_Witness ==
    /\ pc = "AGGREGATED"
    /\ success
    /\ report.verdict = "RE"
    /\ Verdicts(report.results) = <<"RE", "TLE", "WA">>

\* how often an event occurs in the trace of the invocation
Count(ev, tc) ==
    Cardinality({k \in 1..Len(trace) : trace[k].ev = ev /\ trace[k].tc = tc})

\* C28: there are no retries: the compile command is launched at most once,
\* and each test case is started exactly once and gets exactly one
\* JudgeResult, also when its run ends in TLE or RE.
C28_NoRetries ==
    LET seen == {trace[j] : j \in 1..Len(trace)}
        once == {e \in seen : e.ev \in {"compile_code", "compiler", "Popen",
                                         "kill_tree", "result"}}
        times == Cardinality({j \in 1..Len(trace) : trace[j] \in once})
    IN  /\ times = Cardinality(once)
        /\ Len(results) <= Len(test_cases)
        /\ Len(artifacts) = Len(results) + (IF runpc = "idle" THEN 0 ELSE 1)
        /\ \A e \in once : e.ev = "result" => e.tc \in 1..Len(results)
        /\ \A k \in 1..Len(results) :
              /\ Event("result", k) \in once
              /\ results[k].test_case_id = test_cases[k].id
              /\ Event("Popen", k) \in once <=> children[k].kind # "nospawn"

\* three cases judged, the first killed on timeout and the second ended
\* with a non-zero exit: one child and one result each
C28_Witness ==
    /\ pc = "AGGREGATED"
    /\ Verdicts(results) = <<"TLE", "RE", "AC">>
    /\ children[1].kind = "hang"
    /\ children[2].kind = "exit"
    /\ \A k \in 1..3 : Count("Popen", k) = 1 /\ Count("result", k) = 1
    /\ Count("compiler", 0) = 1

\* what a test-case run shows of the program: whether it started and ended,
\* its exit code, its output and its running time
Observed(b) ==
    [kind |-> b.kind, returncode |-> b.returncode, stdout |-> b.stdout,
     elapsed_ms |-> b.elapsed_ms]

\* the verdict as a function of the expected output, the limit and what the
\* run showed, and of nothing else
VerdictFrom(expected_output, limit_ms, o) ==
    LET late == o.elapsed_ms >
                    (IF limit_ms \div MsPerS > MinLimitS
                     THEN limit_ms \div MsPerS ELSE MinLimitS) * MsPerS + SlackMs
        same == _normalize_output(Decode(o.stdout)) =
                    _normalize_output(expected_output)
    IN  CASE o.kind = "hang" -> "TLE"
          [] o.kind = "exit" /\ late -> "TLE"
          [] o.kind = "exit" /\ ~late /\ o.returncode = 0 /\ same -> "AC"
          [] o.kind = "exit" /\ ~late /\ o.returncode = 0 /\ ~same -> "WA"
          [] OTHER -> "RE"

\* C29: judging is deterministic: each per-test verdict, checked as the
\* result is appended, is a function of the test case, the limit and what
\* the run of the program showed (exit code, output, running time), and the
\* overall verdict and the score are
\* functions of the verdict sequence; the platform, the workspace path, the
\* error stream, surviving processes and the cases judged before play no
\* part, so two invocations that agree on the former agree on the latter.
C29_VerdictsAreAFunction ==
    /\ JustReturned =>
          LET k == Len(results)
          IN  results[k].verdict =
                  VerdictFrom(test_cases[k].expected_output, time_limit_ms,
                              Observed(children[k]))
    /\ (pc \in {"AGGREGATED", "RETURNED"} /\ success) =>
          /\ Verdicts(report.results) = Verdicts(results)
          /\ report.verdict = IF AllAC(results) THEN "AC"
                              ELSE results[FirstNonAC(results)].verdict
          /\ report.score =
                Score(Cardinality({k \in 1..Len(results) :
                                      results[k].verdict = "AC"}),
                      Len(test_cases))

\* two runs that show the same but differ otherwise (one leaves a process
\* behind that survives the kill, the other does not) get the same verdict,
\* and so does the case judged after them
C29_Witness ==
    /\ pc = "AGGREGATED"
    /\ Len(results) = 3
    /\ Observed(children[1]) = Observed(children[2])
    /\ children[1] # children[2]
    /\ Process("descendant", 1) \in alive \/ Process("descendant", 2) \in alive
    /\ Verdicts(results) = <<"TLE", "TLE", "AC">>

\* C30: for every positive time_limit_ms = L the nominal limit of each case
\* is exactly L milliseconds: a case killed on timeout reports time_ms = L,
\* and a case that completed is TLE exactly when its elapsed time exceeds
\* L + 500 ms.
C30_NominalLimitIsExact ==
    JustReturned =>
        LET k == Len(results)
            b == children[k]
        IN  /\ b.kind = "hang" => results[k].time_ms = time_limit_ms
            /\ b.kind = "exit" =>
                  (results[k].verdict = "TLE" <=>
                       b.elapsed_ms > time_limit_ms + SlackMs)

\* the child of a run had not ended t milliseconds after communicate was
\* called
StillRunningAfter(b, t) ==
    \/ b.kind = "hang"
    \/ b.kind = "exit" /\ b.elapsed_ms - StartupMs > t

\* C31: the call is aborted at the effective timeout, not at the nominal
\* limit: a kill is issued only for a child that was still running nominal
\* limit + 1.5 s after input feeding began, and for every such child the
\* kill is issued and the case is TLE.
C31_AbortAtEffectiveTimeout ==
    /\ \A k \in 1..Len(results) :
          Has("kill_tree", k) =>
              StillRunningAfter(children[k], time_limit_s * MsPerS + GraceMs)
    /\ runpc = "kill" => StillRunningAfter(proc, time_limit_s * MsPerS + GraceMs)
    /\ JustReturned =>
          LET k == Len(results)
          IN  StillRunningAfter(children[k], time_limit_s * MsPerS + GraceMs) =>
                  /\ Has("kill_tree", k)
                  /\ results[k].verdict = "TLE"

\* one child ended later than the nominal limit and its slack but before
\* the timeout ran out, and was left alone; the next was still running when
\* it ran out and got the kill
C31_Witness ==
    /\ JustReturned
    /\ Len(results) = 2
    /\ children[1].kind = "exit"
    /\ children[1].elapsed_ms > time_limit_s * MsPerS + SlackMs
    /\ ~Has("kill_tree", 1)
    /\ children[2].kind = "hang"
    /\ Has("kill_tree", 2)
    /\ Verdicts(results) = <<"TLE", "TLE">>

\* C32: the two grace windows fit together: a result that is AC or WA, or
\* RE for a child that ran to completion, has time_ms <= nominal limit +
\* 500 ms; a TLE result has time_ms >= nominal limit; and a child that
\* finishes later than nominal + 500 ms but within the effective timeout is
\* TLE with the measured elapsed time as time_ms. The nominal limit is the
\* one run_test_case is given.
C32_GraceWindowsConsistent ==
    JustReturned =>
        LET k == Len(results)
            r == results[k]
            b == children[k]
            nominal_limit_ms == time_limit_s * MsPerS
        IN  /\ r.verdict \in {"AC", "WA"} => r.time_ms <= nominal_limit_ms + SlackMs
            /\ (r.verdict = "RE" /\ b.kind = "exit") =>
                  r.time_ms <= nominal_limit_ms + SlackMs
            /\ r.verdict = "TLE" => r.time_ms >= nominal_limit_ms
            /\ (/\ b.kind = "exit"
                /\ b.elapsed_ms > nominal_limit_ms + SlackMs
                /\ b.elapsed_ms <= nominal_limit_ms + GraceMs) =>
                  /\ r.verdict = "TLE"
                  /\ r.time_ms = b.elapsed_ms
                  /\ ~Has("kill_tree", k)

\* between the two windows: a child that exits non-zero 1 ms after the
\* slack, well within the effective timeout, is not killed and is TLE with
\* its elapsed time
C32_Witness ==
    /\ JustReturned
    /\ children[1].kind = "exit"
    /\ children[1].returncode = 1
    /\ children[1].elapsed_ms = time_limit_s * MsPerS + SlackMs + 1
    /\ children[1].elapsed_ms <= time_limit_s * MsPerS + GraceMs
    /\ results[1].verdict = "TLE"
    /\ results[1].time_ms = children[1].elapsed_ms
    /\ ~Has("kill_tree", 1)

\* C33: verdict and score of every report agree: with at least one test
\* case the overall verdict is AC iff the score is 1.0; a CE report has
\* score 0.0 and no results; a report that is neither AC nor CE has a score
\* strictly below 1.0.
C33_VerdictAndScoreAgree ==
    report # NoReport =>
        LET full == report.score.num = report.score.den
        IN  /\ report.score.den > 0
            /\ report.score.num \in 0..report.score.den
            /\ Len(test_cases) >= 1 => (report.verdict = "AC" <=> full)
            /\ report.verdict = "CE" =>
                  /\ report.score.num = 0
                  /\ report.results = <<>>
            /\ report.verdict \notin {"AC", "CE"} => ~full

\* a report over three cases of which the last two passed: not AC, and
\* two thirds
C33_Witness ==
    /\ pc = "RETURNED"
    /\ Verdicts(report.results) = <<"RE", "AC", "AC">>
    /\ report.verdict = "RE"
    /\ report.score = [num |-> 2, den |-> 3]

Limits == {"RLIMIT_AS", "RLIMIT_CORE", "RLIMIT_FSIZE"}

\* C34: on a platform without the resource facility (win32) the child is
\* launched with no limit at all and the verdict of a child that ran is
\* decided by timeout, exit code and output comparison alone; elsewhere
\* the address-space, core-dump and file-size limits are set in every
\* started child right after the fork, before the program does anything.
C34_MemoryLimitBestEffort ==
    /\ platform = "win32" =>
          /\ \A j \in 1..Len(trace) : trace[j].ev \notin Limits
          /\ JustReturned =>
                LET k == Len(results)
                IN  children[k].kind \in {"exit", "hang"} =>
                        /\ Has("Popen", k)
                        /\ results[k].verdict =
                              VerdictFrom(test_cases[k].expected_output,
                                          time_limit_ms, Observed(children[k]))
    /\ platform # "win32" =>
          \A j \in 1..Len(trace) :
              /\ trace[j].ev = "Popen" =>
                    /\ j + 3 <= Len(trace)
                    /\ trace[j + 1] = Event("RLIMIT_AS", trace[j].tc)
                    /\ trace[j + 2] = Event("RLIMIT_CORE", trace[j].tc)
                    /\ trace[j + 3] = Event("RLIMIT_FSIZE", trace[j].tc)
              /\ trace[j].ev \in {"result", "kill_tree"} =>
                    (Has("Popen", trace[j].tc) =>
                         \E h \in 1..(j - 1) :
                             trace[h] = Event("RLIMIT_FSIZE", trace[j].tc))

\* on win32 a child was launched with no limits and judged WA on its
\* output
C34_Witness ==
    /\ platform = "win32"
    /\ JustReturned
    /\ Len(results) = 1
    /\ trace[Len(trace) - 1] = Event("Popen", 1)
    /\ trace[Len(trace)] = Event("result", 1)
    /\ results[1].verdict = "WA"

\* the answer to the last request is the judging of a submission
JustJudged ==
    /\ response.route = "student.submit_code"
    /\ response.target.endpoint = "student.view_result"

VerdictOfRow(id) ==
    LET hit == {k \in 1..Len(response.results) :
                    response.results[k].test_case_id = id}
    IN  IF hit = {} THEN NONE ELSE response.results[CHOOSE k \in hit : TRUE].verdict

\* C35: the problem's solution, submitted under the problem's limits, is
\* judged AC on every test case that generate_batch saved from that solution
C35_GeneratedCasesAcceptTheSolution ==
    JustJudged =>
        \A r \in RowsOf(1) : r.generated => VerdictOfRow(r.id) = "AC"

\* C40: the order values of a problem's test cases are pairwise distinct
C40_OrdersDistinct ==
    \A r1, r2 \in db.test_cases :
        (r1.problem_id = r2.problem_id /\ r1.id # r2.id) => r1.order # r2.order

\* the custom_problem_id of the launch that made the session's LTI session,
\* 0 when it carried none: launch signs it into the token of that launch
LaunchLock ==
    LET signed == {t \in minted : /\ t.lti_session_id = session.lti_session_id
                                  /\ t.locked_problem_id # 0}
    IN  IF signed = {} THEN 0 ELSE (CHOOSE t \in signed : TRUE).locked_problem_id

\* C36: a student session launched with custom_problem_id = p is sent to
\* problem p when it asks for the problem list, for its submissions or for
\* another problem
C36_NavigationLock ==
    (session.role = "student" /\ LaunchLock # 0 /\ response.status \in {200, 302}) =>
        /\ response.route \in {"student.problem_list", "student.my_submissions"} =>
              /\ response.status = 302
              /\ response.target = Target("student.view_problem", LaunchLock)
        /\ response.route = "student.view_problem" =>
              response.target = Target("student.view_problem", LaunchLock)

\* the submission the last request stored
LastSubmission == db.submissions[Len(db.submissions)]

\* the verdicts of the submissions so far by the same user to the same problem
OwnVerdicts ==
    {db.submissions[k].verdict : k \in
        {j \in 1..Len(db.submissions) :
            /\ db.submissions[j].user_id = LastSubmission.user_id
            /\ db.submissions[j].problem_id = LastSubmission.problem_id}}

\* C37: without a multi-problem lock, the grade sent after a submission is
\* 1.0 exactly when one of the user's submissions to the problem so far,
\* the current one included, was judged AC, and 0.0 otherwise
C37_GradeIsBestSoFar ==
    (JustJudged /\ response.grade # NoGrade
                /\ Len(session.locked_problem_ids) <= 1) =>
        /\ "AC" \in OwnVerdicts => response.grade = [num |-> 1, den |-> 1]
        /\ "AC" \notin OwnVerdicts => response.grade = [num |-> 0, den |-> 1]

\* a submission judged WA after an accepted one of the same user to the same
\* problem, and the grade sent with it is 1.0
C37_Witness ==
    /\ JustJudged
    /\ Len(db.submissions) = 2
    /\ db.submissions[1].verdict = "AC"
    /\ db.submissions[1].user_id = LastSubmission.user_id
    /\ db.submissions[1].problem_id = LastSubmission.problem_id
    /\ LastSubmission.verdict = "WA"
    /\ response.grade = [num |-> 1, den |-> 1]

\* C38: an admin route is served only to a session that an accepted launch
\* with an instructor role made
C38_InstructorOnlyByLaunch ==
    (response.route = "admin.dashboard" /\ response.status = 200
                                        /\ session # NoSession) =>
        /\ session.user_id = LmsUser
        /\ session.role = "instructor"
        /\ \E t \in minted : /\ t.user_id = LmsUser
                             /\ t.role = "instructor"
                             /\ t.lti_session_id = session.lti_session_id

FiveMinutes == 300    \* Check timestamp (allow 5 minute window)

\* C39: a launch whose oauth_timestamp is more than 300 seconds away from
\* the current time is rejected with 'Request timestamp expired'
C39_TimestampWindow ==
    (response.route = "lti.launch" /\ Abs(response.skew) > FiveMinutes) =>
        /\ response.status = 403
        /\ response.error = "Request timestamp expired"

====
